---- MODULE Spec2Model ----
(***************************************************************************)
(* A model of the hasten RPC runtime (src/src/runtime) and of the parts of *)
(* the generated bindings (src/src/codegen/emitter.cpp) that drive it.     *)
(*                                                                         *)
(* The module holds several specifications over one set of variables; each *)
(* specification moves the variables of one part of the runtime and leaves *)
(* the others at their initial value:                                      *)
(*   SpecDisp     SimpleDispatcher under concurrent callers                *)
(*   Spec         the reactor: session I/O threads, the frame queue, the   *)
(*                threads in run(), the executor, generated client calls   *)
(*   SpecServer   one request on a server-side session, from a wide family *)
(*                of payloads, and the handler of bind_<Interface>         *)
(*   SpecChan     UdsChannel::receive against a concurrent close           *)
(*   SpecStop     Context::stop against run, accept and I/O threads        *)
(***************************************************************************)
EXTENDS Integers, Sequences, FiniteSets, TLC

(***************************************************************************)
(* Bounds of the model.                                                    *)
(***************************************************************************)
NumCallers == 2
MaxOpens == 3
MaxSets == 2
MaxStreamId == 2
MaxRecv == 2
MaxCalls == 1

Callers == 1..NumCallers
StreamIds == 1..MaxStreamId
None == "none"

VARIABLES
    next_id_,       \* SimpleDispatcher::next_id_
    handlers_,      \* SimpleDispatcher::handlers_ : stream id -> continuation
    openLog,        \* history: <<caller, id>> per open_stream() call, in order
    setCount,       \* history: number of set_response_handler calls so far
    taken,          \* history: continuation -> number of take calls that returned it
    invoked,        \* history: continuation -> number of times it was called
    lastOp          \* history: the dispatcher operation of the last step

dispVars == <<next_id_, handlers_, openLog, setCount, taken, invoked, lastOp>>

VARIABLES
    sessions_,      \* Context::Impl::sessions_ (the sessions in the list)
    running_,       \* Session::running_ per session
    chanOpen,       \* per session: its channel's fd_ >= 0
    peer_encoding_, \* Session::peer_encoding_ per session
    io,             \* per session: position of its I/O thread and the frame it holds
    recvCount,      \* history: frames received so far, per session
    frame_queue_,   \* Context::Impl::frame_queue_
    rt,             \* per run thread: position in run_loop and the popped item
    tasks,          \* tasks scheduled on an executor and not yet run
    sent,           \* history: frames written to each session's channel, in order
    pushLog,        \* history: <<session, seq>> in the order of enqueue_frame
    handleLog,      \* history: the frames handle_frame was invoked for, in order
    handlerCalls,   \* history: invocations of registered rpc handlers
    contCalls,      \* history: invocations of response continuations
    respLog,        \* history: per request frame, the response frames sent for it
    bodyRuns,       \* history: per request frame, what the generated handler body met
    stopping_,      \* ThreadPoolExecutor::stopping_ of the executor given to bind_<Interface>
    calls           \* history: per continuation, the client call that registered it

rxVars == <<sessions_, running_, chanOpen, peer_encoding_, io, recvCount, frame_queue_,
            rt, tasks, sent, pushLog, handleLog, handlerCalls, contCalls, respLog, bodyRuns, stopping_,
            calls>>

VARIABLES
    fd_,            \* UdsChannel::fd_ : the descriptor, or -1
    fdOpen,         \* the kernel's view: the channel's descriptor is open
    wake_count,     \* the counter of the eventfd wake_fd_
    inbox,          \* chunks the peer wrote that are not read yet
    rcv,            \* the thread calling receive(): position, locals, result
    closer,         \* the thread calling close(): position and the local 'old'
    receives        \* history: number of receive() calls so far

chanVars == <<fd_, fdOpen, wake_count, inbox, rcv, closer, receives>>

VARIABLES
    stop_requested_,  \* Context::Impl::stop_requested_
    stopper,          \* the thread calling Context::stop(): position, sessions_snapshot
    runner,           \* per thread calling run(): its position in run_loop / pop_frame
    queue_mutex_,     \* the thread that holds Context::Impl::queue_mutex_, or None
    queued,           \* the number of frames in the frame queue
    listener,         \* the ListenerState of listen(): running, Server::fd_, accept thread
    sess,             \* per session: running_, channel closed, position of its I/O thread
    session_list,     \* Context::Impl::sessions_
    arrivals,         \* history: frames the peers sent so far
    conns             \* history: connections made to the listener so far

stopVars == <<stop_requested_, stopper, runner, queue_mutex_, queued, listener, sess,
              session_list, arrivals, conns>>

VARIABLES
    tasks_,           \* ThreadPoolExecutor::tasks_ (task ids, front first)
    pool_stopping_,   \* ThreadPoolExecutor::stopping_
    workers_,         \* per worker thread: position in worker_loop and the task it holds
    sched,            \* per task: position of the schedule() call that passes it
    poolStop,         \* the thread calling ThreadPoolExecutor::stop(): its position
    ranBy,            \* history: per task, its executions <<thread, stopping_ when it was popped>>
    inlineSched,      \* per task: position of the InlineExecutor::schedule() call
    inlineRan         \* history: per task, executions by InlineExecutor::schedule

execVars == <<tasks_, pool_stopping_, workers_, sched, poolStop, ranBy, inlineSched, inlineRan>>

VARIABLES
    adder             \* per session: position of the thread inside add_session for it

helloVars == <<adder>>

VARIABLES
    hbPc,             \* HB1: "idle", "built", "encoded" or "decoded"
    hbMsg,            \* HB1: the descriptor and the field values handed to encode_message
    hbEnc,            \* HB1: what encode_message returned for hbMsg
    hbDec             \* HB1: the descriptor given to decode_message, what a dangling
                      \* read gave and what decode_message returned

hb1Vars == <<hbPc, hbMsg, hbEnc, hbDec>>

VARIABLES
    fhPc,             \* frame header: "idle", "built", "encoded", "decoded", "damaged", "rejected"
    fhHeader,         \* the FrameHeader handed to encode_header
    fhBytes,          \* the 24 bytes encode_header wrote
    fhDecoded,        \* what decode_header returned for fhBytes
    fhFlip,           \* the bit of fhBytes that was changed afterwards
    fhDamaged         \* what decode_header returned for the changed bytes

frameVars == <<fhPc, fhHeader, fhBytes, fhDecoded, fhFlip, fhDamaged>>

VARIABLES
    idPc,             \* generator: "idle", "parsed" or "emitted"
    idNames,          \* the names of the module, the interface and the method
    idMeta            \* the module_id, interface_id and method_id emitted for them

idVars == <<idPc, idNames, idMeta>>

VARIABLES
    importsOf,        \* frontend: per file on disk, the import paths its text names
    all_imports,      \* Program::Files: the paths parsed so far (the keys of the map)
    callStack,        \* the parse_imports calls in progress: their path and loop position
    parseResult,      \* "none", "running", "ok" or "error": what the outermost call returned
    parsedTimes       \* history: per file on disk, how often parse_single_file parsed it

importVars == <<importsOf, all_imports, callStack, parseResult, parsedTimes>>

VARIABLES
    validPc,          \* semantic validator: the container checked next, or "done"
    nodes,            \* the ids of the container check_id_collection ran on last
    sink              \* DiagnosticSink: the diagnostics reported so far, in order

validVars == <<validPc, nodes, sink>>

VARIABLES
    disk,             \* code generator: per output path, whether a file exists and its bytes
    emitPc,           \* "setup", "idle", or the output file emit_module writes next
    emitInput,        \* the module the running (or last) emit_module was given
    prevInput,        \* the module of the run before, 0 if none or if that run failed
    emitResult,       \* "none", "running", "ok" or "error": what emit_module returned
    emitRuns,         \* the number of generator runs started
    wrote             \* history: <<run, path>> for every file opened for writing

emitVars == <<disk, emitPc, emitInput, prevInput, emitResult, emitRuns, wrote>>

VARIABLES
    peerGone          \* per session: the peer has closed its end of the connection

faultVars == <<peerGone>>

VARIABLES
    wire,             \* UdsChannel::send: what was written to the descriptor, in order
    sender            \* per sending thread: its position in send() and its frame

sendVars == <<wire, sender>>

VARIABLES
    joiner,           \* Context::join: the position of the thread inside join()
    listeners_mutex_, \* Context::Impl::listeners_mutex_ : its holder, or None
    reactor_running_  \* Context::Impl::reactor_running_ : start() made the reactor thread

joinVars == <<joiner, listeners_mutex_, reactor_running_>>

VARIABLES
    kind_             \* Session::kind_ per session: "Server" or "Client"

kindVars == <<kind_>>

VARIABLES
    pingInbox,        \* two Contexts: per side, the frames on the channel towards it
    pingQueue,        \* per side, Context::Impl::frame_queue_
    pinged            \* the one Ping frame from outside has been delivered

pingVars == <<pingInbox, pingQueue, pinged>>

\* the groups declared after stopVars
extVars == <<execVars, helloVars, hb1Vars, frameVars,
            idVars, importVars, validVars, emitVars, faultVars, sendVars, joinVars, kindVars, pingVars>>

vars == <<dispVars, rxVars, chanVars, stopVars, extVars>>

(***************************************************************************)
(* SimpleDispatcher (uds.cpp).  handlers_ is a function whose domain is    *)
(* the set of stream ids with a stored continuation.  A continuation is    *)
(* named by the pair <<stream id, serial number of the set call>>.         *)
(***************************************************************************)
MapErase(m, k) == [x \in (DOMAIN m) \ {k} |-> m[x]]
MapPut(m, k, v) == [x \in (DOMAIN m) \cup {k} |-> IF x = k THEN v ELSE m[x]]
Bump(m, k) == [m EXCEPT ![k] = @ + 1]

InitDisp ==
    /\ next_id_ = 1
    /\ handlers_ = << >>
    /\ openLog = << >>
    /\ setCount = 0
    /\ taken = << >>
    /\ invoked = << >>
    /\ lastOp = [op |-> "init", id |-> 0, result |-> None]

\* next_id_++ : the value the counter holds after the call
open_stream_next_mut(n) == n
open_stream_next(n) == n + 1

\* std::uint64_t open_stream() { return next_id_++; }   (one atomic step)
open_stream(c) ==
    /\ Len(openLog) < MaxOpens
    /\ openLog' = Append(openLog, <<c, next_id_>>)
    /\ lastOp' = [op |-> "open", id |-> next_id_, result |-> None]
    /\ next_id_' = open_stream_next(next_id_)
    /\ UNCHANGED <<handlers_, setCount, taken, invoked, rxVars, chanVars, stopVars, extVars>>

\* set_response_handler: handlers_[stream_id] = handler, under mutex_
set_response_handler(id) ==
    /\ setCount < MaxSets
    /\ setCount' = setCount + 1
    /\ handlers_' = MapPut(handlers_, id, <<id, setCount + 1>>)
    /\ taken' = MapPut(taken, <<id, setCount + 1>>, 0)
    /\ invoked' = MapPut(invoked, <<id, setCount + 1>>, 0)
    /\ lastOp' = [op |-> "set", id |-> id, result |-> <<id, setCount + 1>>]
    /\ UNCHANGED <<next_id_, openLog, rxVars, chanVars, stopVars, extVars>>

\* the map take_response_handler leaves behind when it found the id
take_erase_mut(m, id) == m
take_erase(m, id) == MapErase(m, id)

\* take_response_handler: find, move out, erase, under mutex_
take_response_handler(id) ==
    /\ IF id \in DOMAIN handlers_
       THEN /\ lastOp' = [op |-> "take", id |-> id, result |-> handlers_[id]]
            /\ taken' = Bump(taken, handlers_[id])
            /\ handlers_' = take_erase(handlers_, id)
       ELSE /\ lastOp' = [op |-> "take", id |-> id, result |-> None]
            /\ UNCHANGED <<taken, handlers_>>
    /\ UNCHANGED <<next_id_, openLog, setCount, invoked, rxVars, chanVars, stopVars, extVars>>

\* the map close_stream leaves behind
close_erase(m, id) == MapErase(m, id)

\* close_stream: handlers_.erase(stream_id), under mutex_
close_stream(id) ==
    /\ lastOp' = [op |-> "close", id |-> id, result |-> None]
    /\ handlers_' = close_erase(handlers_, id)
    /\ UNCHANGED <<next_id_, openLog, setCount, taken, invoked, rxVars, chanVars, stopVars, extVars>>

\* Each operation is called by any of the concurrent callers; the mutex (or
\* the atomic counter) makes the whole operation one step.
OpenStream == \E c \in Callers : open_stream(c)
SetResponseHandler == \E id \in StreamIds : set_response_handler(id)
TakeResponseHandler == \E id \in StreamIds : take_response_handler(id)
CloseStream == \E id \in StreamIds : close_stream(id)

NextDisp ==
    \/ OpenStream
    \/ SetResponseHandler
    \/ TakeResponseHandler
    \/ CloseStream

(***************************************************************************)
(* RPC payload codecs of the reactor (context.cpp) and of the generated    *)
(* stubs (emitter.cpp).  A payload is a sequence of bytes 0..255.  The     *)
(* model's inputs keep every non-zero 7-bit group within the first         *)
(* MaxGroup bytes of a varint, so that values stay far below 2^64 and the  *)
(* 64-bit truncation of the shift never changes a value.                   *)
(***************************************************************************)
RECURSIVE Pow2(_)
Pow2(n) == IF n = 0 THEN 1 ELSE 2 * Pow2(n - 1)

\* static_cast<uint64_t>(byte & 0x7F) << shift
Group(byte, shift) == IF byte % 128 = 0 THEN 0 ELSE (byte % 128) * Pow2(shift)

\* the shift at which read_varint gives up
VarintShiftLimit == 64
varint_limit == VarintShiftLimit

\* read_varint: offset counts the bytes consumed so far (C++ index of the next byte)
RECURSIVE read_varint_loop(_, _, _, _)
read_varint_loop(buffer, offset, result, shift) ==
    IF offset >= Len(buffer)
    THEN [ok |-> FALSE, error |-> "truncated varint"]
    ELSE LET byte == buffer[offset + 1]
             r == result + Group(byte, shift)
         IN IF byte < 128
            THEN [ok |-> TRUE, value |-> r, offset |-> offset + 1]
            ELSE IF shift + 7 >= varint_limit
                 THEN [ok |-> FALSE, error |-> "varint too long"]
                 ELSE read_varint_loop(buffer, offset + 1, r, shift + 7)

read_varint(buffer, offset) == read_varint_loop(buffer, offset, 0, 0)

\* append_varint (emitter.cpp detail::append_varint, context.cpp build_response_payload)
RECURSIVE append_varint(_, _)
append_varint(payload, value) ==
    IF value >= 128
    THEN append_varint(Append(payload, 128 + (value % 128)), value \div 128)
    ELSE Append(payload, value)

Tail_from(buffer, offset) == SubSeq(buffer, offset + 1, Len(buffer))

EncodingHb1 == 0
EncodingMessagePack == 1

StatusOk == 0
StatusApplicationError == 1
StatusInvalidRequest == 2
StatusNotFound == 3
StatusInternalError == 4

\* parse_rpc_request
parse_rpc_request(payload) ==
    LET module_id == read_varint(payload, 0) IN
    IF ~module_id.ok THEN [ok |-> FALSE, error |-> module_id.error] ELSE
    LET interface_id == read_varint(payload, module_id.offset) IN
    IF ~interface_id.ok THEN [ok |-> FALSE, error |-> interface_id.error] ELSE
    LET method_id == read_varint(payload, interface_id.offset) IN
    IF ~method_id.ok THEN [ok |-> FALSE, error |-> method_id.error] ELSE
    LET encoding_id == read_varint(payload, method_id.offset) IN
    IF ~encoding_id.ok THEN [ok |-> FALSE, error |-> encoding_id.error] ELSE
    IF encoding_id.value # EncodingHb1
    THEN [ok |-> FALSE, error |-> "unsupported encoding"] ELSE
    LET request_id == read_varint(payload, encoding_id.offset) IN
    IF ~request_id.ok THEN [ok |-> FALSE, error |-> request_id.error] ELSE
    [ok |-> TRUE,
     module_id |-> module_id.value,
     interface_id |-> interface_id.value,
     method_id |-> method_id.value,
     request_id |-> request_id.value,
     payload |-> Tail_from(payload, request_id.offset)]

\* build_response_payload: varint(encoding) | u8(status) | body
build_response_payload(status, body) ==
    Append(append_varint(<< >>, EncodingHb1), status) \o body

\* parse_rpc_response
parse_rpc_response(payload) ==
    LET encoding_id == read_varint(payload, 0) IN
    IF ~encoding_id.ok THEN [ok |-> FALSE, error |-> encoding_id.error] ELSE
    IF encoding_id.value # EncodingHb1
    THEN [ok |-> FALSE, error |-> "unsupported encoding"] ELSE
    IF encoding_id.offset >= Len(payload)
    THEN [ok |-> FALSE, error |-> "missing response status"] ELSE
    [ok |-> TRUE,
     status |-> payload[encoding_id.offset + 1],
     body |-> Tail_from(payload, encoding_id.offset + 1)]

(***************************************************************************)
(* The reactor: Context::Impl, Session (context.cpp).                      *)
(*                                                                         *)
(* One Context with a server-side and a client-side session.  The peer of  *)
(* each session is the environment: it may write any frame of PeerFrames.  *)
(* A queue entry carries, beside the QueuedFrame, the position of the      *)
(* frame in its session's receive order (seq), what the peer built the     *)
(* payload from (truth) and the client calls whose request had been sent   *)
(* when the frame was received (known); the code reads none of these.      *)
(***************************************************************************)
SessionIds == {"srv", "cli"}
SessionKind(s) == kind_[s]
RunThreads == {"r1", "r2"}

FrameFlagEndStream == 1

Frame(type, flags, stream_id, payload) ==
    [type |-> type, flags |-> flags, stream_id |-> stream_id, payload |-> payload]

\* The process-wide handler registry (rpc.cpp): interface id -> handler.
\* Interface 1 holds the handler registered by a generated bind_<Interface>;
\* interface 2 a handler registered with rpc::register_handler directly, which
\* calls the responder it is given twice before it returns.
Registry == (1 :> "bound") @@ (2 :> "raw")
find_handler(interface_id) ==
    IF interface_id \in DOMAIN Registry THEN Registry[interface_id] ELSE None
RawResponderCalls == <<1, 2>>

\* The request payload as the generated client stub builds it (emitter.cpp)
RequestPayload(module_id, interface_id, method_id, encoding, stream_id, body) ==
    append_varint(append_varint(append_varint(append_varint(append_varint(<< >>,
        module_id), interface_id), method_id), encoding), stream_id) \o body

\* Frames the peer of a session may write, each with what it was built from.
ServerPeerFrames ==
    {[frame |-> Frame("Data", FrameFlagEndStream, r[1],
                      RequestPayload(1, r[2], 1, EncodingHb1, 5, << >>)),
      truth |-> [wellformed |-> TRUE, interface_id |-> r[2]]] :
        r \in {<<1, 1>>, <<2, 2>>, <<1, 3>>}}
    \cup {[frame |-> Frame("Data", 0, 2, <<1, 2>>), truth |-> [wellformed |-> FALSE]]}
    \cup {[frame |-> Frame(ty, 0, 0, <<EncodingMessagePack>>), truth |-> [wellformed |-> FALSE]] :
            ty \in {"Settings", "Goodbye", "Ping", "Cancel", "Error"}}

ClientPeerFrames ==
    {[frame |-> Frame("Data", FrameFlagEndStream, r[1], r[2]),
      truth |-> [wellformed |-> FALSE]] :
        r \in {<<1, build_response_payload(StatusOk, << >>)>>,
               <<1, build_response_payload(StatusNotFound, << >>)>>,
               <<1, << >> >>,
               <<2, build_response_payload(StatusOk, << >>)>>}}
    \cup {[frame |-> Frame("Goodbye", 0, 0, << >>), truth |-> [wellformed |-> FALSE]]}

PeerFrames(s) == IF SessionKind(s) = "Server" THEN ServerPeerFrames ELSE ClientPeerFrames

InitRx ==
    /\ sessions_ = {}
    /\ running_ = [s \in SessionIds |-> FALSE]
    /\ chanOpen = [s \in SessionIds |-> TRUE]
    /\ peer_encoding_ = [s \in SessionIds |-> EncodingHb1]
    /\ io = [s \in SessionIds |-> [pc |-> "none", item |-> None]]
    /\ recvCount = [s \in SessionIds |-> 0]
    /\ frame_queue_ = << >>
    /\ rt = [t \in RunThreads |-> [pc |-> "idle", item |-> None]]
    /\ tasks = << >>
    /\ sent = [s \in SessionIds |-> << >>]
    /\ pushLog = << >>
    /\ handleLog = << >>
    /\ handlerCalls = {}
    /\ contCalls = {}
    /\ respLog = << >>
    /\ bodyRuns = << >>
    /\ stopping_ = FALSE
    /\ calls = << >>
    /\ adder = [s \in SessionIds |-> "none"]

RecvTotal == recvCount["srv"] + recvCount["cli"]

\* UdsChannel::send as the session sees it: the frame is written when the
\* descriptor is still open and the peer has not closed the connection, and
\* the call fails otherwise.
SendOk(s) == chanOpen[s] /\ ~peerGone[s]
AppendAll(log, s, frames) == [log EXCEPT ![s] = @ \o frames]

\* remove_session
remove_session(list, s) == list \ {s}

\* add_session: sessions_.push_back, Session::start; the I/O thread of the
\* session runs from here on, send_initial_settings is still to come
AddSession(s) ==
    /\ io[s].pc = "none"
    /\ adder[s] = "none"
    /\ running_' = [running_ EXCEPT ![s] = TRUE]
    /\ io' = [io EXCEPT ![s].pc = "loop"]
    /\ sessions_' = sessions_ \cup {s}
    /\ adder' = [adder EXCEPT ![s] = "started"]
    /\ UNCHANGED <<dispVars, chanOpen, peer_encoding_, recvCount, frame_queue_, rt, tasks, sent,
                   pushLog, handleLog, handlerCalls, contCalls, respLog, bodyRuns, stopping_,
                   calls, chanVars, stopVars, execVars, hb1Vars, frameVars, idVars,
                   importVars, validVars, emitVars, faultVars, sendVars, joinVars, kindVars, pingVars>>

\* add_session: send_initial_settings; a failed send -> handle_session_error
SendInitialSettings(s) ==
    /\ adder[s] = "started"
    /\ adder' = [adder EXCEPT ![s] = "done"]
    /\ IF SendOk(s)
       THEN /\ sent' = AppendAll(sent, s, <<Frame("Settings", 0, 0, <<EncodingHb1>>)>>)
            /\ sessions_' = sessions_
       ELSE /\ sent' = sent
            /\ sessions_' = remove_session(sessions_, s)
    /\ UNCHANGED <<dispVars, running_, chanOpen, peer_encoding_, io, recvCount, frame_queue_, rt,
                   tasks, pushLog, handleLog, handlerCalls, contCalls, respLog, bodyRuns,
                   stopping_, calls, chanVars, stopVars, execVars, hb1Vars, frameVars, idVars,
                   importVars, validVars, emitVars, faultVars, sendVars, joinVars, kindVars, pingVars>>

\* Session::io_loop: channel_->receive() returned a frame
IoReceive(s) ==
    /\ io[s].pc = "loop"
    /\ running_[s]
    /\ chanOpen[s]
    /\ RecvTotal < MaxRecv
    /\ \E pf \in PeerFrames(s) :
         io' = [io EXCEPT ![s] = [pc |-> "held",
                                  item |-> [session |-> s, seq |-> recvCount[s] + 1,
                                            frame |-> pf.frame, truth |-> pf.truth,
                                            known |-> {c \in DOMAIN calls : calls[c].sent}]]]
    /\ recvCount' = [recvCount EXCEPT ![s] = @ + 1]
    /\ UNCHANGED <<dispVars, sessions_, running_, chanOpen, peer_encoding_, frame_queue_, rt,
                   tasks, sent, pushLog, handleLog, handlerCalls, contCalls, respLog, bodyRuns, stopping_, calls, chanVars, stopVars, extVars>>

\* the queue after enqueue_frame
enqueue(q, e) == Append(q, e)

\* Session::io_loop: frame_callback_ -> enqueue_frame
IoEnqueue(s) ==
    /\ io[s].pc = "held"
    /\ frame_queue_' = enqueue(frame_queue_, io[s].item)
    /\ pushLog' = Append(pushLog, <<s, io[s].item.seq>>)
    /\ io' = [io EXCEPT ![s] = [pc |-> "loop", item |-> None]]
    /\ UNCHANGED <<dispVars, sessions_, running_, chanOpen, peer_encoding_, recvCount, rt,
                   tasks, sent, handleLog, handlerCalls, contCalls, respLog, bodyRuns, stopping_, calls, chanVars, stopVars, extVars>>

\* Session::io_loop: receive() failed because the channel was closed:
\* error_callback_ -> handle_session_error -> remove_session, then break
IoFail(s) ==
    /\ io[s].pc = "loop"
    /\ ~chanOpen[s]
    /\ io' = [io EXCEPT ![s].pc = "done"]
    /\ sessions_' = remove_session(sessions_, s)
    /\ UNCHANGED <<dispVars, running_, chanOpen, peer_encoding_, recvCount, frame_queue_, rt,
                   tasks, sent, pushLog, handleLog, handlerCalls, contCalls, respLog, bodyRuns, stopping_, calls, chanVars, stopVars, extVars>>

\* Session::io_loop: the loop condition running_ is false
IoExit(s) ==
    /\ io[s].pc = "loop"
    /\ ~running_[s]
    /\ io' = [io EXCEPT ![s].pc = "done"]
    /\ UNCHANGED <<dispVars, sessions_, running_, chanOpen, peer_encoding_, recvCount,
                   frame_queue_, rt, tasks, sent, pushLog, handleLog, handlerCalls, contCalls,
                   respLog, bodyRuns, stopping_, calls, chanVars, stopVars, extVars>>

\* pop_frame: front of the queue, under queue_mutex_
PopFrame(t) ==
    /\ rt[t].pc = "idle"
    /\ frame_queue_ # << >>
    /\ rt' = [rt EXCEPT ![t] = [pc |-> "popped", item |-> Head(frame_queue_)]]
    /\ frame_queue_' = Tail(frame_queue_)
    /\ UNCHANGED <<dispVars, sessions_, running_, chanOpen, peer_encoding_, io, recvCount,
                   tasks, sent, pushLog, handleLog, handlerCalls, contCalls, respLog, bodyRuns, stopping_, calls, chanVars, stopVars, extVars>>

\* A Session object is alive while some shared_ptr to it exists: the session
\* list, its I/O thread, a queued frame, or a run thread handling its frame.
Alive(s) ==
    \/ s \in sessions_
    \/ io[s].pc \in {"loop", "held"}
    \/ \E i \in 1..Len(frame_queue_) : frame_queue_[i].session = s
    \/ \E t \in RunThreads : rt[t].pc # "idle" /\ rt[t].item.session = s

Key(e) == <<e.session, e.seq>>
LogAt(log, k) == IF k \in DOMAIN log THEN log[k] ELSE << >>

\* the frame send_rpc_response builds
response_frame(stream_id, request_id, status, body) ==
    Frame("Data", FrameFlagEndStream, stream_id, build_response_payload(status, body))

\* the status handle_server_data replies with when the payload does not parse
parse_failure_status_mut == StatusNotFound
parse_failure_status == StatusInvalidRequest

\* the status handle_server_data replies with when no handler is registered
no_handler_status == StatusNotFound

\* One entry of respLog: a call of send_rpc_response, by the reactor itself or
\* through a responder, and whether the frame was written.
Reply(by, s, frame, ok) == [by |-> by, session |-> s, frame |-> frame, sent |-> ok]

\* rpc::Response{status, body}
Response(status, body) == [status |-> status, body |-> body]

\* What encode_<Method>_response leaves in response_body
EncodedReply == <<42>>

\* The responses the responder is called with, one after the other, by the
\* handler body that generate_server_source emits.  impl is what the call of
\* the implementation does: it returns a value, returns a failure, or throws
\* (the worker that runs the body catches the exception).
bind_handler_body_mut(method_known, decode_ok, impl, has_response, encode_ok) ==
    IF ~method_known THEN <<Response(StatusNotFound, << >>)>>
    ELSE IF ~decode_ok THEN <<Response(StatusInvalidRequest, << >>)>>
    ELSE IF impl = "throws" THEN << >>
    ELSE IF impl = "failure"
         THEN <<Response(StatusApplicationError, << >>), Response(StatusOk, << >>)>>
    ELSE IF has_response /\ ~encode_ok THEN <<Response(StatusInternalError, << >>)>>
    ELSE IF has_response THEN <<Response(StatusOk, EncodedReply)>>
    ELSE <<Response(StatusOk, << >>)>>
bind_handler_body(method_known, decode_ok, impl, has_response, encode_ok) ==
    IF ~method_known THEN <<Response(StatusNotFound, << >>)>>
    ELSE IF ~decode_ok THEN <<Response(StatusInvalidRequest, << >>)>>
    ELSE IF impl = "throws" THEN << >>
    ELSE IF impl = "failure" THEN <<Response(StatusApplicationError, << >>)>>
    ELSE IF has_response /\ ~encode_ok THEN <<Response(StatusInternalError, << >>)>>
    ELSE IF has_response THEN <<Response(StatusOk, EncodedReply)>>
    ELSE <<Response(StatusOk, << >>)>>

\* ThreadPoolExecutor::schedule: the task is queued unless the executor is stopping
schedule_mut(queue, stopping, task) == queue
schedule(queue, stopping, task) == IF stopping THEN queue ELSE Append(queue, task)

\* The methods of the bound interface: method id -> whether it has a result
BoundMethods == (1 :> TRUE) @@ (2 :> FALSE)

\* handle_ping: the answer has type Ping and the flags, stream id and payload
\* of the frame received
ping_response(frame) == Frame("Ping", frame.flags, frame.stream_id, frame.payload)

\* handle_ping: echo type, flags, stream id and payload on the session
handle_ping(e) ==
    /\ IF SendOk(e.session)
       THEN /\ sent' = AppendAll(sent, e.session, <<ping_response(e.frame)>>)
            /\ sessions_' = sessions_
       ELSE /\ sent' = sent
            /\ sessions_' = remove_session(sessions_, e.session)
    /\ UNCHANGED <<handlers_, taken, running_, chanOpen, peer_encoding_, tasks, handlerCalls,
                   respLog, calls>>

\* handle_settings
handle_settings(e) ==
    /\ peer_encoding_' = IF e.frame.payload # << >>
                         THEN [peer_encoding_ EXCEPT ![e.session] = Head(e.frame.payload)]
                         ELSE peer_encoding_
    /\ UNCHANGED <<handlers_, taken, sessions_, running_, chanOpen, tasks, sent, handlerCalls,
                   respLog, calls>>

\* handle_goodbye, up to the join inside Session::stop: when this call turned
\* running_ off it closes the channel and waits for the I/O thread
handle_goodbye(e) ==
    /\ running_' = [running_ EXCEPT ![e.session] = FALSE]
    /\ IF running_[e.session]
       THEN /\ chanOpen' = [chanOpen EXCEPT ![e.session] = FALSE]
            /\ sessions_' = sessions_
       ELSE /\ chanOpen' = chanOpen
            /\ sessions_' = remove_session(sessions_, e.session)
    /\ UNCHANGED <<handlers_, taken, peer_encoding_, tasks, sent, handlerCalls, respLog, calls>>

\* handle_cancel, handle_error: a log line
handle_ignored(e) ==
    UNCHANGED <<handlers_, taken, sessions_, running_, chanOpen, peer_encoding_, tasks, sent,
                handlerCalls, respLog, calls>>

\* (*handler)(request_ptr, responder): the thread in handle_server_data calls
\* the handler it found
handler_called_by == "reactor"

\* handle_server_data
handle_server_data(e) ==
    LET s == e.session
        stream_id == e.frame.stream_id
        parsed == parse_rpc_request(e.frame.payload)
        handler == IF parsed.ok THEN find_handler(parsed.interface_id) ELSE None
        request_id == IF parsed.ok THEN parsed.request_id ELSE 0
        \* the send_rpc_response calls made before handle_server_data returns
        statuses == IF ~parsed.ok THEN <<parse_failure_status>>
                    ELSE IF handler = None THEN <<no_handler_status>>
                    ELSE IF handler = "raw" THEN [i \in DOMAIN RawResponderCalls |-> StatusOk]
                    ELSE << >>
        frames == [i \in DOMAIN statuses |->
                     response_frame(stream_id, request_id, statuses[i], << >>)]
        by == IF handler = None THEN "reactor" ELSE "responder"
    IN  /\ IF frames = << >> \/ SendOk(s)
           THEN /\ sent' = AppendAll(sent, s, frames)
                /\ sessions_' = sessions_
           ELSE /\ sent' = sent
                /\ sessions_' = remove_session(sessions_, s)
        /\ respLog' = IF frames = << >> THEN respLog
                      ELSE MapPut(respLog, Key(e),
                                  [i \in DOMAIN frames |-> Reply(by, s, frames[i], SendOk(s))])
        /\ handlerCalls' = IF handler = None THEN handlerCalls
                           ELSE handlerCalls \cup
                                {[session |-> s, seq |-> e.seq, stream_id |-> stream_id,
                                  interface_id |-> parsed.interface_id,
                                  by |-> handler_called_by]}
        \* the handler of bind_<Interface> only schedules its body on its executor
        /\ tasks' = IF handler = "bound"
                    THEN schedule(tasks, stopping_,
                                  [kind |-> "serve", session |-> s, seq |-> e.seq,
                                   stream_id |-> stream_id, request |-> parsed])
                    ELSE tasks
        /\ UNCHANGED <<handlers_, taken, running_, chanOpen, peer_encoding_, calls>>

\* handle_client_data
handle_client_data(e) ==
    LET stream_id == e.frame.stream_id
        response == parse_rpc_response(e.frame.payload)
        answered == [c \in DOMAIN calls |->
                       IF calls[c].stream_id = stream_id /\ calls[c].session = e.session
                          /\ c \in e.known
                       THEN [calls[c] EXCEPT !.answered = @ + 1] ELSE calls[c]]
    IN  /\ calls' = answered
        /\ IF ~response.ok
           THEN /\ handlers_' = close_erase(handlers_, stream_id)
                /\ UNCHANGED <<taken, tasks>>
           ELSE IF stream_id \notin DOMAIN handlers_
                THEN UNCHANGED <<handlers_, taken, tasks>>
                ELSE /\ handlers_' = take_erase(handlers_, stream_id)
                     /\ taken' = Bump(taken, handlers_[stream_id])
                     /\ tasks' = Append(tasks, [kind |-> "cont", cont |-> handlers_[stream_id],
                                                response |-> [status |-> response.status,
                                                              body |-> response.body]])
        /\ UNCHANGED <<sessions_, running_, chanOpen, peer_encoding_, sent, handlerCalls,
                       respLog>>

\* handle_frame
handle_frame(e) ==
    CASE e.frame.type = "Ping" -> handle_ping(e)
      [] e.frame.type = "Settings" -> handle_settings(e)
      [] e.frame.type = "Goodbye" -> handle_goodbye(e)
      [] e.frame.type \in {"Cancel", "Error"} -> handle_ignored(e)
      [] e.frame.type = "Data" /\ SessionKind(e.session) = "Server" -> handle_server_data(e)
      [] e.frame.type = "Data" /\ SessionKind(e.session) = "Client" -> handle_client_data(e)

\* run_loop: handle_frame(item->session, std::move(item->frame))
HandleFrame(t) ==
    /\ rt[t].pc = "popped"
    /\ handle_frame(rt[t].item)
    /\ handleLog' = Append(handleLog, [session |-> rt[t].item.session, seq |-> rt[t].item.seq,
                                       type |-> rt[t].item.frame.type,
                                       stream_id |-> rt[t].item.frame.stream_id,
                                       truth |-> rt[t].item.truth])
    /\ rt' = IF rt[t].item.frame.type = "Goodbye" /\ running_[rt[t].item.session]
             THEN [rt EXCEPT ![t].pc = "joining"]
             ELSE [rt EXCEPT ![t] = [pc |-> "idle", item |-> None]]
    /\ UNCHANGED <<next_id_, openLog, setCount, invoked, lastOp, io, recvCount, frame_queue_,
                   pushLog, contCalls, bodyRuns, stopping_, chanVars, stopVars, extVars>>

\* handle_goodbye after io_thread_.join() returned: remove_session
GoodbyeJoined(t) ==
    /\ rt[t].pc = "joining"
    /\ io[rt[t].item.session].pc = "done"
    /\ sessions_' = remove_session(sessions_, rt[t].item.session)
    /\ rt' = [rt EXCEPT ![t] = [pc |-> "idle", item |-> None]]
    /\ UNCHANGED <<dispVars, running_, chanOpen, peer_encoding_, io, recvCount, frame_queue_,
                   tasks, sent, pushLog, handleLog, handlerCalls, contCalls, respLog, bodyRuns, stopping_, calls, chanVars, stopVars, extVars>>

RemoveAt(q, i) == SubSeq(q, 1, i - 1) \o SubSeq(q, i + 1, Len(q))

\* The result the generated response continuation hands to the caller's callback
callback_result(response) ==
    IF response.status # StatusOk
    THEN [ok |-> FALSE, code |-> "InternalError", message |-> "rpc error"]
    ELSE [ok |-> TRUE, body |-> response.body]

\* A worker of the Context's executor runs a scheduled continuation: the lambda
\* of generate_client_source closes the stream and calls the callback
RunContinuation(i) ==
    LET task == tasks[i]
        c == task.cont
    IN  /\ task.kind = "cont"
        /\ tasks' = RemoveAt(tasks, i)
        /\ handlers_' = close_erase(handlers_, c[1])
        /\ invoked' = Bump(invoked, c)
        /\ contCalls' = contCalls \cup {[cont |-> c, by |-> "executor",
                                         status |-> task.response.status,
                                         result |-> callback_result(task.response)]}
        /\ calls' = [calls EXCEPT ![c].results = Append(@, callback_result(task.response))]
        /\ UNCHANGED <<next_id_, openLog, setCount, taken, lastOp, sessions_, running_, chanOpen,
                       peer_encoding_, io, recvCount, frame_queue_, rt, sent, pushLog, handleLog,
                       handlerCalls, respLog, bodyRuns, stopping_, chanVars, stopVars, extVars>>

\* A worker of the executor given to bind_<Interface> runs the handler body:
\* decode the request, call the implementation, encode the reply, and call
\* the responder, which sends on the session when it is still alive
RunHandlerBody(i, decode_ok, impl, encode_ok) ==
    LET task == tasks[i]
        s == task.session
        m == task.request.method_id
        known == m \in DOMAIN BoundMethods
        responses == bind_handler_body(known, decode_ok, impl,
                                       IF known THEN BoundMethods[m] ELSE FALSE, encode_ok)
        frames == [k \in DOMAIN responses |->
                     response_frame(task.stream_id, task.request.request_id,
                                    responses[k].status, responses[k].body)]
        written == Alive(s) /\ SendOk(s)
    IN  /\ task.kind = "serve"
        /\ tasks' = RemoveAt(tasks, i)
        /\ sent' = IF written THEN AppendAll(sent, s, frames) ELSE sent
        /\ sessions_' = IF Alive(s) /\ ~SendOk(s) /\ frames # << >>
                        THEN remove_session(sessions_, s) ELSE sessions_
        /\ respLog' = MapPut(respLog, <<s, task.seq>>,
                             LogAt(respLog, <<s, task.seq>>) \o
                             [k \in DOMAIN frames |-> Reply("responder", s, frames[k], written)])
        /\ bodyRuns' = MapPut(bodyRuns, <<s, task.seq>>,
                              [method_id |-> m, decode_ok |-> decode_ok, impl |-> impl,
                               encode_ok |-> encode_ok])
        /\ UNCHANGED <<dispVars, running_, chanOpen, peer_encoding_, io, recvCount, frame_queue_,
                       rt, pushLog, handleLog, handlerCalls, contCalls, stopping_, calls, chanVars, stopVars, extVars>>

\* What the handler body meets: <<the request body decodes, what the
\* implementation does, the reply encodes>>
ImplOutcomes == {"value", "failure", "throws"}
AllOutcomes == BOOLEAN \X ImplOutcomes \X BOOLEAN
FewOutcomes == {<<TRUE, "value", TRUE>>, <<TRUE, "failure", TRUE>>}

ExecRun(outcomes) ==
    \E i \in DOMAIN tasks :
        \/ RunContinuation(i)
        \/ \E o \in outcomes : RunHandlerBody(i, o[1], o[2], o[3])

\* ThreadPoolExecutor::stop on the executor given to bind_<Interface>: the
\* workers run the tasks already queued and exit
ExecutorStop ==
    /\ ~stopping_
    /\ stopping_' = TRUE
    /\ UNCHANGED <<dispVars, sessions_, running_, chanOpen, peer_encoding_, io, recvCount,
                   frame_queue_, rt, tasks, sent, pushLog, handleLog, handlerCalls, contCalls,
                   respLog, bodyRuns, calls, chanVars, stopVars, extVars>>

\* A call of a generated client method on the stub of session s
\* (generate_client_source): open_stream, encode the request,
\* set_response_handler, channel_->send; every failure calls the callback.
ClientCall(s, encode_ok) ==
    LET stream_id == next_id_
        c == <<stream_id, setCount + 1>>
        send_ok == encode_ok /\ SendOk(s)
        payload == RequestPayload(1, 1, 1, EncodingHb1, stream_id, << >>)
        failure == IF ~encode_ok
                   THEN <<[ok |-> FALSE, code |-> "InternalError", message |-> "encode"]>>
                   ELSE IF ~send_ok
                   THEN <<[ok |-> FALSE, code |-> "TransportError",
                           message |-> "Invalid channel file descriptor"]>>
                   ELSE << >>
    IN  /\ SessionKind(s) = "Client"
        /\ io[s].pc # "none"
        /\ Cardinality(DOMAIN calls) < MaxCalls
        /\ next_id_' = open_stream_next(next_id_)
        /\ setCount' = setCount + 1
        /\ handlers_' = IF send_ok THEN MapPut(handlers_, stream_id, c)
                        ELSE close_erase(handlers_, stream_id)
        /\ taken' = MapPut(taken, c, 0)
        /\ invoked' = MapPut(invoked, c, Len(failure))
        /\ contCalls' = contCalls
        /\ calls' = MapPut(calls, c, [session |-> s, stream_id |-> stream_id,
                                      sent |-> send_ok, answered |-> 0, results |-> failure])
        /\ sent' = IF send_ok
                   THEN AppendAll(sent, s, <<Frame("Data", FrameFlagEndStream, stream_id, payload)>>)
                   ELSE sent
        /\ UNCHANGED <<openLog, lastOp, sessions_, running_, chanOpen, peer_encoding_, io,
                       recvCount, frame_queue_, rt, tasks, pushLog, handleLog, handlerCalls,
                       respLog, bodyRuns, stopping_, chanVars, stopVars, extVars>>

NextRx ==
    \/ \E s \in SessionIds : AddSession(s)
    \/ \E s \in SessionIds : SendInitialSettings(s)
    \/ \E s \in SessionIds : IoReceive(s)
    \/ \E s \in SessionIds : IoEnqueue(s)
    \/ \E s \in SessionIds : IoFail(s)
    \/ \E s \in SessionIds : IoExit(s)
    \/ \E t \in RunThreads : PopFrame(t)
    \/ \E t \in RunThreads : HandleFrame(t)
    \/ \E t \in RunThreads : GoodbyeJoined(t)
    \/ ExecRun(FewOutcomes)
    \/ \E s \in SessionIds, encode_ok \in BOOLEAN : ClientCall(s, encode_ok)

(***************************************************************************)
(* One request on the server-side session, drawn from a wide family of     *)
(* payloads: five varint fields, each well or badly formed, a body, and a  *)
(* cut after any of the first MaxCut bytes.                                *)
(***************************************************************************)
MaxCut == 4

\* a varint of ten bytes that read_varint accepts, and one of eleven it rejects
Repeat(b, n) == [i \in 1..n |-> b]
LongVarint == Repeat(128, 9) \o <<0>>
OverlongVarint == Repeat(128, 10) \o <<0>>

Field(bytes, ok, value) == [bytes |-> bytes, ok |-> ok, value |-> value]
Canonical(v) == Field(append_varint(<< >>, v), TRUE, v)
Overlong == Field(OverlongVarint, FALSE, 0)

WideModule == {Canonical(1), Overlong}
WideInterface == {Canonical(1), Canonical(2), Canonical(3), Field(<<129, 0>>, TRUE, 1), Overlong}
WideMethod == {Canonical(1), Canonical(2), Canonical(9)}
WideEncoding == {Canonical(EncodingHb1), Canonical(EncodingMessagePack),
                 Field(LongVarint, TRUE, 0), Overlong}
WideStream == {Canonical(5), Canonical(200)}
WideBody == {<< >>, <<7>>}

WideFrame(mo, it, me, en, st, body, cut) ==
    LET head == mo.bytes \o it.bytes \o me.bytes \o en.bytes \o st.bytes
        full == head \o body
        payload == IF cut > MaxCut THEN full ELSE SubSeq(full, 1, cut)
    IN  [frame |-> Frame("Data", FrameFlagEndStream, 2, payload),
         truth |-> IF /\ mo.ok /\ it.ok /\ me.ok /\ en.ok /\ st.ok
                      /\ en.value = EncodingHb1
                      /\ Len(payload) >= Len(head)
                   THEN [wellformed |-> TRUE, interface_id |-> it.value,
                         method_id |-> me.value]
                   ELSE [wellformed |-> FALSE]]

WideServerFrames ==
    {WideFrame(mo, it, me, en, st, body, cut) :
        mo \in WideModule, it \in WideInterface, me \in WideMethod, en \in WideEncoding,
        st \in WideStream, body \in WideBody, cut \in 0..(MaxCut + 1)}

\* Session::io_loop on the server-side session: receive() returns the request
\* and frame_callback_ enqueues it
WideReceive(s) ==
    /\ SessionKind(s) = "Server"
    /\ io[s].pc = "loop"
    /\ running_[s]
    /\ chanOpen[s]
    /\ RecvTotal = 0
    /\ \E pf \in WideServerFrames :
         LET e == [session |-> s, seq |-> 1, frame |-> pf.frame, truth |-> pf.truth,
                   known |-> {}]
         IN  /\ frame_queue_' = enqueue(frame_queue_, e)
             /\ pushLog' = Append(pushLog, Key(e))
    /\ recvCount' = [recvCount EXCEPT ![s] = 1]
    /\ UNCHANGED <<dispVars, sessions_, running_, chanOpen, peer_encoding_, io, rt, tasks, sent,
                   handleLog, handlerCalls, contCalls, respLog, bodyRuns, stopping_, calls, chanVars, stopVars, extVars>>

NextServer ==
    \/ AddSession("srv")
    \/ SendInitialSettings("srv")
    \/ WideReceive("srv")
    \/ PopFrame("r1")
    \/ HandleFrame("r1")
    \/ ExecRun(AllOutcomes)
    \/ ExecutorStop

(***************************************************************************)
(* UdsChannel (uds.cpp): one thread in receive(), one in close(), and the  *)
(* peer writing to the socket.  A frame reaches receive() in two chunks,   *)
(* its header and its payload, each read by one call of read_full.         *)
(***************************************************************************)
MaxChunks == 2
MaxReceives == 2

ChannelFd == 3
FrameChunks == 2

Error(code, message) == [ok |-> FALSE, code |-> code, message |-> message]
\* make_errno_error(prefix, errno)
make_errno_error(prefix) == [ok |-> FALSE, code |-> "errno", message |-> prefix]

InitChan ==
    /\ fd_ = ChannelFd
    /\ fdOpen = TRUE
    /\ wake_count = 0
    /\ inbox = 0
    /\ rcv = [pc |-> "idle", current_fd |-> -1, nval |-> FALSE,
              revents |-> [wake |-> FALSE, fd |-> "none"], need |-> 0,
              result |-> None, closeBegan |-> FALSE, closeEnded |-> FALSE]
    /\ closer = [pc |-> "idle", old |-> -1]
    /\ receives = 0

InsideReceive == rcv.pc \notin {"idle", "returned"}

Return(result) == [rcv EXCEPT !.pc = "returned", !.result = result]

\* receive(): int current_fd = fd(); the call starts with this load
ReceiveEnter ==
    /\ rcv.pc \in {"idle", "returned"}
    /\ receives < MaxReceives
    /\ receives' = receives + 1
    /\ LET r == [rcv EXCEPT !.closeBegan = FALSE, !.closeEnded = FALSE, !.result = None,
                            !.current_fd = fd_, !.need = FrameChunks]
       IN  rcv' = IF fd_ < 0
                  THEN [r EXCEPT !.pc = "returned",
                                 !.result = Error("TransportError",
                                                  "Invalid channel file descriptor")]
                  ELSE [r EXCEPT !.pc = "poll"]
    /\ UNCHANGED <<fd_, fdOpen, wake_count, inbox, closer, dispVars, rxVars, stopVars, extVars>>

\* read_full: ::poll(fds, 2, -1) is entered; a descriptor that is not open
\* at this point is reported as POLLNVAL
PollCall ==
    /\ rcv.pc = "poll"
    /\ rcv' = [rcv EXCEPT !.pc = "in_poll", !.nval = ~fdOpen]
    /\ UNCHANGED <<fd_, fdOpen, wake_count, inbox, closer, receives, dispVars, rxVars, stopVars, extVars>>

PollReady == rcv.nval \/ wake_count > 0 \/ inbox > 0

\* read_full: ::poll returns with the events it found
PollReturn ==
    /\ rcv.pc = "in_poll"
    /\ PollReady
    /\ rcv' = [rcv EXCEPT !.pc = "polled",
                          !.revents = [wake |-> wake_count > 0,
                                       fd |-> IF rcv.nval THEN "POLLNVAL"
                                              ELSE IF inbox > 0 THEN "POLLIN" ELSE "none"]]
    /\ UNCHANGED <<fd_, fdOpen, wake_count, inbox, closer, receives, dispVars, rxVars, stopVars, extVars>>

\* read_full: the checks of revents after poll
cancelled_result == Error("Cancelled", "Channel closed")

AfterPoll ==
    /\ rcv.pc = "polled"
    /\ IF rcv.revents.wake
       THEN /\ wake_count' = 0
            /\ rcv' = Return(cancelled_result)
       ELSE /\ wake_count' = wake_count
            /\ rcv' = IF rcv.revents.fd = "POLLNVAL" THEN Return(make_errno_error("poll"))
                      ELSE IF rcv.revents.fd = "none" THEN [rcv EXCEPT !.pc = "poll"]
                      ELSE [rcv EXCEPT !.pc = "read"]
    /\ UNCHANGED <<fd_, fdOpen, inbox, closer, receives, dispVars, rxVars, stopVars, extVars>>

\* read_full: ::read(fd, ...) and what follows it; receive() returns the frame
\* when its last chunk is read
Read ==
    /\ rcv.pc = "read"
    /\ IF ~fdOpen
       THEN /\ rcv' = Return(make_errno_error("read"))
            /\ inbox' = inbox
       ELSE IF inbox = 0
       THEN /\ rcv' = Return(Error("TransportError", "peer closed connection"))
            /\ inbox' = inbox
       ELSE /\ inbox' = inbox - 1
            /\ rcv' = IF rcv.need = 1 THEN Return([ok |-> TRUE])
                      ELSE [rcv EXCEPT !.pc = "poll", !.need = @ - 1]
    /\ UNCHANGED <<fd_, fdOpen, wake_count, closer, receives, dispVars, rxVars, stopVars, extVars>>

\* close(): int old = fd_.exchange(-1)
CloseExchange ==
    /\ closer.pc = "idle"
    /\ closer' = [pc |-> "close_fd", old |-> fd_]
    /\ fd_' = -1
    /\ rcv' = [rcv EXCEPT !.closeBegan = InsideReceive]
    /\ UNCHANGED <<fdOpen, wake_count, inbox, receives, dispVars, rxVars, stopVars, extVars>>

\* close(): if (old >= 0) ::close(old)
CloseFd ==
    /\ closer.pc = "close_fd"
    /\ closer' = [closer EXCEPT !.pc = "write_wake"]
    /\ fdOpen' = IF closer.old >= 0 THEN FALSE ELSE fdOpen
    /\ UNCHANGED <<fd_, wake_count, inbox, rcv, receives, dispVars, rxVars, stopVars, extVars>>

\* close(): ::write(wake_fd_, &one, sizeof(one)), and close() returns
WriteWake ==
    /\ closer.pc = "write_wake"
    /\ closer' = [closer EXCEPT !.pc = "done"]
    /\ wake_count' = wake_count + 1
    /\ rcv' = [rcv EXCEPT !.closeEnded = rcv.closeBegan /\ InsideReceive]
    /\ UNCHANGED <<fd_, fdOpen, inbox, receives, dispVars, rxVars, stopVars, extVars>>

\* the peer writes one chunk
PeerSend ==
    /\ fdOpen
    /\ inbox < MaxChunks
    /\ inbox' = inbox + 1
    /\ UNCHANGED <<fd_, fdOpen, wake_count, rcv, closer, receives, dispVars, rxVars, stopVars, extVars>>

NextChan ==
    \/ ReceiveEnter
    \/ PollCall
    \/ PollReturn
    \/ AfterPoll
    \/ Read
    \/ CloseExchange
    \/ CloseFd
    \/ WriteWake
    \/ PeerSend

(***************************************************************************)
(* Context::stop() against the threads of a Context (context.cpp): the     *)
(* threads in run(), the accept thread of a listener and the I/O threads   *)
(* of an attached session and of an accepted one.  The accept thread runs  *)
(* on Linux, where closing a descriptor does not end an accept() that is   *)
(* already blocked on it.  A condition variable wakes no thread by itself. *)
(***************************************************************************)
MaxStopFrames == 1
MaxConns == 1

ServerFd == 4
StopSessions == {"attached", "accepted"}

InitStop ==
    /\ stop_requested_ = FALSE
    /\ stopper = [pc |-> "idle", snapshot |-> {}, target |-> None]
    /\ runner = [t \in RunThreads |-> "outside"]
    /\ queue_mutex_ = None
    /\ queued = 0
    /\ listener = [pc |-> "none", running |-> FALSE, fd_ |-> -1, fdOpen |-> FALSE]
    /\ sess = [s \in StopSessions |-> [pc |-> "none", running_ |-> FALSE, closed |-> FALSE,
                                      added |-> "none"]]
    /\ session_list = {}
    /\ arrivals = 0
    /\ conns = 0

\* Context::listen: uds::listen, the accept thread, and listeners_.push_back
\* under listeners_mutex_
Listen ==
    /\ listener.pc = "none"
    /\ listeners_mutex_ = None
    /\ listener' = [pc |-> "loop", running |-> TRUE, fd_ |-> ServerFd, fdOpen |-> TRUE]
    /\ UNCHANGED <<stop_requested_, stopper, runner, queue_mutex_, queued, sess, session_list,
                   arrivals, conns, dispVars, rxVars, chanVars, extVars>>

\* add_session: sessions_.push_back, Session::start; "added" is history: where
\* the thread calling stop() was when the session was added
add_session(list, s) == list \cup {s}
started_session == [pc |-> "loop", running_ |-> TRUE, closed |-> FALSE, added |-> stopper.pc]

\* Context::attach_channel
AttachChannel ==
    /\ sess["attached"].pc = "none"
    /\ sess' = [sess EXCEPT !["attached"] = started_session]
    /\ session_list' = add_session(session_list, "attached")
    /\ UNCHANGED <<stop_requested_, stopper, runner, queue_mutex_, queued, listener, arrivals,
                   conns, dispVars, rxVars, chanVars, extVars>>

\* accept_loop: while (state->running && !stop_requested_)
AcceptLoop ==
    /\ listener.pc = "loop"
    /\ listener' = [listener EXCEPT !.pc = IF listener.running /\ ~stop_requested_
                                          THEN "accept" ELSE "returned"]
    /\ UNCHANGED <<stop_requested_, stopper, runner, queue_mutex_, queued, sess, session_list,
                   arrivals, conns, dispVars, rxVars, chanVars, extVars>>

\* Server::accept: if (fd_ < 0) return error; ::accept(fd_, ...) is entered
AcceptCall ==
    /\ listener.pc = "accept"
    /\ listener' = [listener EXCEPT !.pc = IF listener.fd_ < 0 \/ ~listener.fdOpen
                                          THEN "failed" ELSE "in_accept"]
    /\ UNCHANGED <<stop_requested_, stopper, runner, queue_mutex_, queued, sess, session_list,
                   arrivals, conns, dispVars, rxVars, chanVars, extVars>>

\* ::accept returns a connection; accept_loop calls add_session
AcceptConnection ==
    /\ listener.pc = "in_accept"
    /\ listener.fdOpen
    /\ conns < MaxConns
    /\ sess["accepted"].pc = "none"
    /\ conns' = conns + 1
    /\ sess' = [sess EXCEPT !["accepted"] = started_session]
    /\ session_list' = add_session(session_list, "accepted")
    /\ listener' = [listener EXCEPT !.pc = "loop"]
    /\ UNCHANGED <<stop_requested_, stopper, runner, queue_mutex_, queued, arrivals, dispVars, rxVars, chanVars, extVars>>

\* accept_loop after a failed accept: break when stopping, else sleep and retry
AcceptFailed ==
    /\ listener.pc = "failed"
    /\ listener' = [listener EXCEPT !.pc = IF ~listener.running \/ stop_requested_
                                          THEN "returned" ELSE "loop"]
    /\ UNCHANGED <<stop_requested_, stopper, runner, queue_mutex_, queued, sess, session_list,
                   arrivals, conns, dispVars, rxVars, chanVars, extVars>>

\* Session::io_loop: while (running_)
SessionLoop(s) ==
    /\ sess[s].pc = "loop"
    /\ sess' = [sess EXCEPT ![s].pc = IF sess[s].running_ THEN "receive" ELSE "done"]
    /\ UNCHANGED <<stop_requested_, stopper, runner, queue_mutex_, queued, listener,
                   session_list, arrivals, conns, dispVars, rxVars, chanVars, extVars>>

\* Session::io_loop: channel_->receive() is entered; on a closed channel it
\* returns an error, handle_session_error removes the session
SessionReceive(s) ==
    /\ sess[s].pc = "receive"
    /\ IF sess[s].closed
       THEN /\ sess' = [sess EXCEPT ![s].pc = "done"]
            /\ session_list' = remove_session(session_list, s)
       ELSE /\ sess' = [sess EXCEPT ![s].pc = "in_receive"]
            /\ session_list' = session_list
    /\ UNCHANGED <<stop_requested_, stopper, runner, queue_mutex_, queued, listener, arrivals,
                   conns, dispVars, rxVars, chanVars, extVars>>

\* receive() returns a frame of the peer
SessionFrame(s) ==
    /\ sess[s].pc = "in_receive"
    /\ ~sess[s].closed
    /\ arrivals < MaxStopFrames
    /\ arrivals' = arrivals + 1
    /\ sess' = [sess EXCEPT ![s].pc = "holding"]
    /\ UNCHANGED <<stop_requested_, stopper, runner, queue_mutex_, queued, listener,
                   session_list, conns, dispVars, rxVars, chanVars, extVars>>

\* receive() blocked in poll is woken by close(): Cancelled, the loop ends
SessionCancelled(s) ==
    /\ sess[s].pc = "in_receive"
    /\ sess[s].closed
    /\ sess' = [sess EXCEPT ![s].pc = "done"]
    /\ session_list' = remove_session(session_list, s)
    /\ UNCHANGED <<stop_requested_, stopper, runner, queue_mutex_, queued, listener, arrivals,
                   conns, dispVars, rxVars, chanVars, extVars>>

\* queue_cv_.notify_one(): one of the waiting threads, if there is one
notify_one(r, t) == IF t = None THEN r ELSE [r EXCEPT ![t] = "woken"]
\* queue_cv_.notify_all()
notify_all(r) == [t \in DOMAIN r |-> IF r[t] = "waiting" THEN "woken" ELSE r[t]]

Waiting == {t \in RunThreads : runner[t] = "waiting"}

\* enqueue_frame: push_back under queue_mutex_, then notify_one
SessionEnqueue(s) ==
    /\ sess[s].pc = "holding"
    /\ queue_mutex_ = None
    /\ queued' = queued + 1
    /\ \E t \in (IF Waiting = {} THEN {None} ELSE Waiting) : runner' = notify_one(runner, t)
    /\ sess' = [sess EXCEPT ![s].pc = "loop"]
    /\ UNCHANGED <<stop_requested_, stopper, queue_mutex_, listener, session_list, arrivals,
                   conns, dispVars, rxVars, chanVars, extVars>>

\* run(): run_loop(true, false) is entered
RunEnter(t) ==
    /\ runner[t] = "outside"
    /\ runner' = [runner EXCEPT ![t] = "pop"]
    /\ UNCHANGED <<stop_requested_, stopper, queue_mutex_, queued, listener, sess, session_list,
                   arrivals, conns, dispVars, rxVars, chanVars, extVars>>

\* pop_frame: with queue_mutex_ locked, the predicate of queue_cv_.wait is
\* evaluated; when it holds the front of the queue is taken (or nullopt
\* returned) and the mutex released, else the thread is about to wait
PopCheck(t) ==
    /\ runner[t] \in {"pop", "woken"}
    /\ queue_mutex_ = None
    /\ IF stop_requested_ \/ queued > 0
       THEN /\ runner' = [runner EXCEPT ![t] = IF queued = 0 THEN "empty" ELSE "handle"]
            /\ queued' = IF queued = 0 THEN 0 ELSE queued - 1
            /\ queue_mutex_' = None
       ELSE /\ runner' = [runner EXCEPT ![t] = "pre_wait"]
            /\ queued' = queued
            /\ queue_mutex_' = t
    /\ UNCHANGED <<stop_requested_, stopper, listener, sess, session_list, arrivals, conns, dispVars, rxVars, chanVars, extVars>>

\* queue_cv_.wait(lock): the mutex is released and the thread blocks
PopWait(t) ==
    /\ runner[t] = "pre_wait"
    /\ runner' = [runner EXCEPT ![t] = "waiting"]
    /\ queue_mutex_' = None
    /\ UNCHANGED <<stop_requested_, stopper, queued, listener, sess, session_list, arrivals,
                   conns, dispVars, rxVars, chanVars, extVars>>

\* run_loop: pop_frame returned nullopt
RunEmpty(t) ==
    /\ runner[t] = "empty"
    /\ runner' = [runner EXCEPT ![t] = IF stop_requested_ THEN "returned" ELSE "pop"]
    /\ UNCHANGED <<stop_requested_, stopper, queue_mutex_, queued, listener, sess, session_list,
                   arrivals, conns, dispVars, rxVars, chanVars, extVars>>

\* run_loop: handle_frame on the popped item
RunHandle(t) ==
    /\ runner[t] = "handle"
    /\ runner' = [runner EXCEPT ![t] = "pop"]
    /\ UNCHANGED <<stop_requested_, stopper, queue_mutex_, queued, listener, sess, session_list,
                   arrivals, conns, dispVars, rxVars, chanVars, extVars>>

\* stop(): stop_requested_.compare_exchange_strong(false, true)
StopCall ==
    /\ stopper.pc = "idle"
    /\ stopper' = [stopper EXCEPT !.pc = IF stop_requested_ THEN "returned" ELSE "notify"]
    /\ stop_requested_' = TRUE
    /\ UNCHANGED <<runner, queue_mutex_, queued, listener, sess, session_list, arrivals, conns, dispVars, rxVars, chanVars, extVars>>

\* stop(): queue_cv_.notify_all()
StopNotify ==
    /\ stopper.pc = "notify"
    /\ runner' = notify_all(runner)
    /\ stopper' = [stopper EXCEPT !.pc = "listeners"]
    /\ UNCHANGED <<stop_requested_, queue_mutex_, queued, listener, sess, session_list,
                   arrivals, conns, dispVars, rxVars, chanVars, extVars>>

\* stop(): under listeners_mutex_, state->running = false and
\* state->server->close()  (Server::close)
StopListeners ==
    /\ stopper.pc = "listeners"
    /\ listeners_mutex_ = None
    /\ listener' = IF listener.pc = "none" THEN listener
                   ELSE [listener EXCEPT !.running = FALSE, !.fd_ = -1, !.fdOpen = FALSE]
    /\ stopper' = [stopper EXCEPT !.pc = "snapshot"]
    /\ UNCHANGED <<stop_requested_, runner, queue_mutex_, queued, sess, session_list, arrivals,
                   conns, dispVars, rxVars, chanVars, extVars>>

\* stop(): sessions_snapshot = sessions_; sessions_.clear()
StopSnapshot ==
    /\ stopper.pc = "snapshot"
    /\ stopper' = [stopper EXCEPT !.pc = "sessions", !.snapshot = session_list]
    /\ session_list' = {}
    /\ UNCHANGED <<stop_requested_, runner, queue_mutex_, queued, listener, sess, arrivals,
                   conns, dispVars, rxVars, chanVars, extVars>>

\* stop(): session->stop() for the next session of the snapshot, up to the
\* join: running_.exchange(false), channel_->close()
StopSession ==
    /\ stopper.pc = "sessions"
    /\ IF stopper.snapshot = {}
       THEN /\ stopper' = [stopper EXCEPT !.pc = "returned"]
            /\ sess' = sess
       ELSE \E s \in stopper.snapshot :
              IF sess[s].running_
              THEN /\ sess' = [sess EXCEPT ![s].running_ = FALSE, ![s].closed = TRUE]
                   /\ stopper' = [stopper EXCEPT !.pc = "join", !.target = s]
              ELSE /\ sess' = sess
                   /\ stopper' = [stopper EXCEPT !.snapshot = @ \ {s}]
    /\ UNCHANGED <<stop_requested_, runner, queue_mutex_, queued, listener, session_list,
                   arrivals, conns, dispVars, rxVars, chanVars, extVars>>

\* Session::stop: io_thread_.join() returns
StopJoin ==
    /\ stopper.pc = "join"
    /\ sess[stopper.target].pc = "done"
    /\ stopper' = [stopper EXCEPT !.pc = "sessions", !.snapshot = @ \ {stopper.target},
                                  !.target = None]
    /\ UNCHANGED <<stop_requested_, runner, queue_mutex_, queued, listener, sess, session_list,
                   arrivals, conns, dispVars, rxVars, chanVars, extVars>>

NextStop ==
    \/ Listen
    \/ AttachChannel
    \/ AcceptLoop
    \/ AcceptCall
    \/ AcceptConnection
    \/ AcceptFailed
    \/ \E s \in StopSessions : SessionLoop(s)
    \/ \E s \in StopSessions : SessionReceive(s)
    \/ \E s \in StopSessions : SessionFrame(s)
    \/ \E s \in StopSessions : SessionCancelled(s)
    \/ \E s \in StopSessions : SessionEnqueue(s)
    \/ \E t \in RunThreads : RunEnter(t)
    \/ \E t \in RunThreads : PopCheck(t)
    \/ \E t \in RunThreads : PopWait(t)
    \/ \E t \in RunThreads : RunEmpty(t)
    \/ \E t \in RunThreads : RunHandle(t)
    \/ StopCall
    \/ StopNotify
    \/ StopListeners
    \/ StopSnapshot
    \/ StopSession
    \/ StopJoin

(***************************************************************************)
(* ThreadPoolExecutor and InlineExecutor (executor.cpp, executor.hpp):     *)
(* NumWorkers worker threads, one schedule() call per task, possibly       *)
(* concurrent, and one thread calling stop().  schedule, stop and the      *)
(* check in worker_loop each run under mutex_; cv_.wait evaluates its      *)
(* predicate and blocks in one step with respect to them.                  *)
(***************************************************************************)
NumWorkers == 2
MaxTasks == 2

Workers == 1..NumWorkers
TaskIds == 1..MaxTasks
notExec == <<dispVars, rxVars, chanVars, stopVars, helloVars, hb1Vars, frameVars, idVars,
            importVars, validVars, emitVars, faultVars, sendVars, joinVars, kindVars, pingVars>>

InitExec ==
    /\ tasks_ = << >>
    /\ pool_stopping_ = FALSE
    /\ workers_ = [w \in Workers |-> [pc |-> "check", task |-> 0, late |-> FALSE]]
    /\ sched = [k \in TaskIds |-> "idle"]
    /\ poolStop = "idle"
    /\ ranBy = [k \in TaskIds |-> << >>]
    /\ inlineSched = [k \in TaskIds |-> "idle"]
    /\ inlineRan = [k \in TaskIds |-> 0]

\* ThreadPoolExecutor::schedule, under mutex_: return when stopping_, else push
PoolSchedule(k) ==
    /\ sched[k] = "idle"
    /\ tasks_' = schedule(tasks_, pool_stopping_, k)
    /\ sched' = [sched EXCEPT ![k] = IF pool_stopping_ THEN "dropped" ELSE "pushed"]
    /\ UNCHANGED <<pool_stopping_, workers_, poolStop, ranBy, inlineSched, inlineRan, notExec>>

\* cv_.notify_one(): one of the waiting workers, if there is one
wake_one(ws, w) == IF w = 0 THEN ws ELSE [ws EXCEPT ![w].pc = "check"]
\* cv_.notify_all()
wake_all(ws) == [w \in DOMAIN ws |-> IF ws[w].pc = "waiting" THEN [ws[w] EXCEPT !.pc = "check"]
                                     ELSE ws[w]]
WaitingWorkers == {w \in Workers : workers_[w].pc = "waiting"}

\* ThreadPoolExecutor::schedule: cv_.notify_one() and return
PoolNotify(k) ==
    /\ sched[k] = "pushed"
    /\ \E w \in (IF WaitingWorkers = {} THEN {0} ELSE WaitingWorkers) :
         workers_' = wake_one(workers_, w)
    /\ sched' = [sched EXCEPT ![k] = "returned"]
    /\ UNCHANGED <<tasks_, pool_stopping_, poolStop, ranBy, inlineSched, inlineRan, notExec>>

\* worker_loop: if (stopping_ && tasks_.empty()) return;
worker_exits_mut(stopping, queue) == stopping
worker_exits(stopping, queue) == stopping /\ queue = << >>

\* worker_loop, under mutex_: cv_.wait(lock, pred), the exit test, the pop
WorkerCheck(w) ==
    /\ workers_[w].pc = "check"
    /\ IF ~(pool_stopping_ \/ tasks_ # << >>)
       THEN /\ workers_' = [workers_ EXCEPT ![w].pc = "waiting"]
            /\ UNCHANGED <<tasks_, ranBy>>
       ELSE IF worker_exits(pool_stopping_, tasks_)
       THEN /\ workers_' = [workers_ EXCEPT ![w].pc = "exited"]
            /\ UNCHANGED <<tasks_, ranBy>>
       ELSE /\ workers_' = [workers_ EXCEPT ![w] = [pc |-> "run", task |-> Head(tasks_),
                                                    late |-> pool_stopping_]]
            /\ tasks_' = Tail(tasks_)
            /\ ranBy' = ranBy
    /\ UNCHANGED <<pool_stopping_, sched, poolStop, inlineSched, inlineRan, notExec>>

\* worker_loop: task() inside the try block
WorkerRun(w) ==
    /\ workers_[w].pc = "run"
    /\ ranBy' = [ranBy EXCEPT ![workers_[w].task] = Append(@, <<w, workers_[w].late>>)]
    /\ workers_' = [workers_ EXCEPT ![w] = [pc |-> "check", task |-> 0, late |-> FALSE]]
    /\ UNCHANGED <<tasks_, pool_stopping_, sched, poolStop, inlineSched, inlineRan, notExec>>

\* ThreadPoolExecutor::stop: stopping_ = true, under mutex_
PoolStopSet ==
    /\ poolStop = "idle"
    /\ pool_stopping_' = TRUE
    /\ poolStop' = "notify"
    /\ UNCHANGED <<tasks_, workers_, sched, ranBy, inlineSched, inlineRan, notExec>>

\* ThreadPoolExecutor::stop: cv_.notify_all()
PoolStopNotify ==
    /\ poolStop = "notify"
    /\ workers_' = wake_all(workers_)
    /\ poolStop' = "join"
    /\ UNCHANGED <<tasks_, pool_stopping_, sched, ranBy, inlineSched, inlineRan, notExec>>

\* ThreadPoolExecutor::stop: every worker.join() returned; workers_.clear()
PoolStopJoin ==
    /\ poolStop = "join"
    /\ \A w \in Workers : workers_[w].pc = "exited"
    /\ poolStop' = "returned"
    /\ UNCHANGED <<tasks_, pool_stopping_, workers_, sched, ranBy, inlineSched, inlineRan,
                   notExec>>

\* InlineExecutor::schedule: fn();
InlineSchedule(k) ==
    /\ inlineSched[k] = "idle"
    /\ inlineRan' = [inlineRan EXCEPT ![k] = @ + 1]
    /\ inlineSched' = [inlineSched EXCEPT ![k] = "returned"]
    /\ UNCHANGED <<tasks_, pool_stopping_, workers_, sched, poolStop, ranBy, notExec>>

NextExec ==
    \/ \E k \in TaskIds : PoolSchedule(k)
    \/ \E k \in TaskIds : PoolNotify(k)
    \/ \E w \in Workers : WorkerCheck(w)
    \/ \E w \in Workers : WorkerRun(w)
    \/ PoolStopSet
    \/ PoolStopNotify
    \/ PoolStopJoin
    \/ \E k \in TaskIds : InlineSchedule(k)

(***************************************************************************)
(* HB1 messages (serialization/hb1.cpp): encode_message writes a tag        *)
(* varint, a wire-type byte and the value of every field; decode_message   *)
(* first collects a FieldView per field with Reader::next and then         *)
(* converts them.  Reader::next keeps the bytes of a Varint or             *)
(* ZigZagVarint field in out.scratch and lets out.data point at them;      *)
(* decode_message passes the same FieldView to every call and stores       *)
(* copies, so the data of a stored copy still points into the scratch      *)
(* buffer of that one FieldView.  The buffer is modelled as the bytes in   *)
(* its storage (store, as long as its capacity) and the number of the      *)
(* allocation (epoch); a view of an earlier allocation is dangling.        *)
(* Values stay below 2^31, the tool's integers.                            *)
(***************************************************************************)
MaxFields == 3
kMaxVarintBytes == 10

Varint == 0
ZigZagVarint == 1
Fixed32 == 2
Fixed64 == 3
LengthDelimited == 4
Capability == 5

Ok(bytes) == [ok |-> TRUE, bytes |-> bytes]
Failed(code, message) == [ok |-> FALSE, error |-> Error(code, message)]

RECURSIVE encode_varint_u64(_)
encode_varint_u64(value) ==
    IF value >= 128
    THEN <<(value % 128) + 128>> \o encode_varint_u64(value \div 128)
    ELSE <<value>>

\* (value << 1) ^ (value >> 63)
write_zigzag(value) == encode_varint_u64(IF value >= 0 THEN 2 * value ELSE -2 * value - 1)
write_tag(tag, type) == encode_varint_u64(tag) \o <<type>>

\* the low n bytes of value, most significant first
RECURSIVE big_endian(_, _)
big_endian(value, n) ==
    IF n = 0 THEN << >> ELSE big_endian(value \div 256, n - 1) \o <<value % 256>>

FieldValue(id, wire_type, kind, value) ==
    [id |-> id, wire_type |-> wire_type, kind |-> kind, value |-> value]
FieldDescriptor(id, wire_type, optional, preferred_kind) ==
    [id |-> id, wire_type |-> wire_type, optional |-> optional,
     preferred_kind |-> preferred_kind]

\* find_field: the index of the first field of the descriptor with this id, 0 for nullptr
find_field(descriptor, id) ==
    IF \E i \in DOMAIN descriptor : descriptor[i].id = id
    THEN CHOOSE i \in DOMAIN descriptor :
            /\ descriptor[i].id = id
            /\ \A j \in 1..(i - 1) : descriptor[j].id # id
    ELSE 0

encode_value(v) ==
    CASE v.wire_type = Varint ->
           IF v.kind # "Unsigned" THEN Failed("InternalError", "value kind mismatch")
           ELSE Ok(write_tag(v.id, Varint) \o encode_varint_u64(v.value))
      [] v.wire_type = ZigZagVarint ->
           IF v.kind # "Signed" THEN Failed("InternalError", "value kind mismatch")
           ELSE Ok(write_tag(v.id, ZigZagVarint) \o write_zigzag(v.value))
      [] v.wire_type = Fixed32 ->
           IF v.kind # "Unsigned" THEN Failed("InternalError", "value kind mismatch")
           ELSE Ok(write_tag(v.id, Fixed32) \o big_endian(v.value, 4))
      [] v.wire_type = Fixed64 ->
           IF v.kind # "Unsigned" THEN Failed("InternalError", "value kind mismatch")
           ELSE Ok(write_tag(v.id, Fixed64) \o big_endian(v.value, 8))
      [] v.wire_type = LengthDelimited ->
           IF v.kind \in {"String", "Bytes"}
           THEN Ok(write_tag(v.id, LengthDelimited) \o encode_varint_u64(Len(v.value))
                   \o v.value)
           ELSE Failed("InternalError", "length-delimited field requires string/bytes")
      [] v.wire_type = Capability ->
           Failed("Unimplemented", "capability encoding not implemented")
      [] OTHER -> Failed("InternalError", "unknown wire type")

RECURSIVE encode_message_from(_, _, _, _)
encode_message_from(descriptor, values, i, out) ==
    IF i > Len(values) THEN Ok(out)
    ELSE LET value == values[i]
             d == find_field(descriptor, value.id)
         IN  IF d = 0
             THEN Failed("InternalError", "unknown field id in encode_message")
             ELSE IF descriptor[d].wire_type # value.wire_type
             THEN Failed("InternalError", "wire type mismatch in encode_message")
             ELSE IF /\ descriptor[d].wire_type = LengthDelimited
                     /\ descriptor[d].preferred_kind = "String"
                     /\ value.kind # "String"
             THEN Failed("InternalError", "length-delimited field expects string")
             ELSE IF /\ descriptor[d].wire_type = LengthDelimited
                     /\ descriptor[d].preferred_kind = "Bytes"
                     /\ value.kind # "Bytes"
             THEN Failed("InternalError", "length-delimited field expects bytes")
             ELSE LET res == encode_value(value)
                  IN  IF ~res.ok THEN res
                      ELSE encode_message_from(descriptor, values, i + 1, out \o res.bytes)

encode_message(descriptor, values) == encode_message_from(descriptor, values, 1, << >>)

\* read_varint of hb1.cpp on the source at offset pos: the value and the new offset
RECURSIVE hb1_read_varint(_, _, _, _)
hb1_read_varint(data, pos, i, result) ==
    IF i >= kMaxVarintBytes THEN Failed("TransportError", "varint too long")
    ELSE IF pos > Len(data) THEN Failed("TransportError", "unexpected end of payload")
    ELSE LET byte == data[pos]
             r == result + (byte % 128) * Pow2(7 * i)
         IN  IF byte < 128 THEN [ok |-> TRUE, value |-> r, pos |-> pos + 1]
             ELSE hb1_read_varint(data, pos + 1, i + 1, r)

\* SpanSource::read(size) at offset pos
source_read(data, pos, size) ==
    IF pos - 1 + size > Len(data) THEN Failed("TransportError", "payload underrun")
    ELSE [ok |-> TRUE, bytes |-> SubSeq(data, pos, pos + size - 1), pos |-> pos + size]

\* Reader::next, the Varint and ZigZagVarint case: the bytes up to the first
\* one without the continuation bit, kMaxVarintBytes at most
RECURSIVE read_scratch(_, _, _)
read_scratch(data, pos, count) ==
    IF pos > Len(data) THEN Failed("TransportError", "payload underrun")
    ELSE IF data[pos] < 128 \/ count + 1 >= kMaxVarintBytes
    THEN IF data[pos] >= 128 THEN Failed("TransportError", "unterminated varint")
         ELSE [ok |-> TRUE, count |-> count + 1]
    ELSE read_scratch(data, pos + 1, count + 1)

\* Reader::next at offset pos: the field read (data: the bytes of the value,
\* scratch: whether they were put into out.scratch) and the new offset
Reader_next(data, pos) ==
    IF pos > Len(data) THEN [ok |-> TRUE, more |-> FALSE]
    ELSE
    LET tag == hb1_read_varint(data, pos, 0, 0) IN
    IF ~tag.ok THEN tag
    ELSE
    LET type_data == source_read(data, tag.pos, 1) IN
    IF ~type_data.ok THEN type_data
    ELSE
    LET wire_type == type_data.bytes[1]
        at == type_data.pos
        field(bytes, scratch, next) ==
            [ok |-> TRUE, more |-> TRUE, id |-> tag.value, wire_type |-> wire_type,
             data |-> bytes, scratch |-> scratch, pos |-> next]
        sized(n) == LET bytes == source_read(data, at, n)
                    IN  IF ~bytes.ok THEN bytes ELSE field(bytes.bytes, FALSE, bytes.pos)
    IN  CASE wire_type \in {Varint, ZigZagVarint} ->
               LET got == read_scratch(data, at, 0)
               IN  IF ~got.ok THEN got
                   ELSE field(SubSeq(data, at, at + got.count - 1), TRUE, at + got.count)
          [] wire_type = Fixed32 -> sized(4)
          [] wire_type = Fixed64 -> sized(8)
          [] wire_type \in {LengthDelimited, Capability} ->
               LET len == hb1_read_varint(data, at, 0, 0)
               IN  IF ~len.ok THEN len
                   ELSE LET bytes == source_read(data, len.pos, len.value)
                        IN  IF ~bytes.ok THEN bytes
                            ELSE field(bytes.bytes, FALSE, bytes.pos)
          [] OTHER -> field(<< >>, FALSE, at)

\* out.scratch.assign(buffer, buffer + count) after out.scratch.clear(): the
\* storage is kept when the bytes fit its capacity, and replaced otherwise
scratch_assign(store, epoch, bytes) ==
    IF Len(bytes) > Len(store)
    THEN [store |-> bytes, epoch |-> epoch + 1]
    ELSE [store |-> bytes \o SubSeq(store, Len(bytes) + 1, Len(store)), epoch |-> epoch]

\* decode_message, first loop: views.push_back(view) after every reader.next(view)
\* (the result of reader.next is bound to its value before it is used)
RECURSIVE read_views(_, _, _, _, _)
read_views(data, pos, store, epoch, views) ==
    LET push(next) ==
            IF ~next.ok THEN next
            ELSE IF ~next.more
            THEN [ok |-> TRUE, views |-> views, store |-> store, epoch |-> epoch]
            ELSE LET scratch == IF next.scratch THEN scratch_assign(store, epoch, next.data)
                                ELSE [store |-> store, epoch |-> epoch]
                     view == [id |-> next.id, wire_type |-> next.wire_type,
                              data |-> next.data, scratch |-> next.scratch,
                              epoch |-> scratch.epoch]
                 IN  read_views(data, next.pos, scratch.store, scratch.epoch,
                                Append(views, view))
    IN  CHOOSE result \in {push(next) : next \in {Reader_next(data, pos)}} : TRUE

\* What a read through a span into released storage can give: the bytes that
\* were there, or what the allocator or a later owner left in their place
DanglingReads == {"kept", "zero", "ones"}
dangling_read(bytes, g) ==
    CASE g = "kept" -> bytes
      [] g = "zero" -> [i \in DOMAIN bytes |-> 0]
      [] g = "ones" -> [i \in DOMAIN bytes |-> 255]

\* field.data in the second loop of decode_message
field_data(view, store, epoch, g) ==
    IF ~view.scratch THEN view.data
    ELSE IF view.epoch = epoch THEN SubSeq(store, 1, Len(view.data))
    ELSE dangling_read(view.data, g)

RECURSIVE decode_varint_from(_, _, _)
decode_varint_from(data, i, result) ==
    IF i > Len(data) THEN Failed("TransportError", "unterminated varint payload")
    ELSE LET r == result + (data[i] % 128) * Pow2(7 * (i - 1))
         IN  IF data[i] < 128 THEN [ok |-> TRUE, value |-> r]
             ELSE decode_varint_from(data, i + 1, r)

decode_varint(data) == decode_varint_from(data, 1, 0)

\* (value >> 1) ^ -(value & 1)
decode_zigzag(data) ==
    LET varint == decode_varint(data)
    IN  IF ~varint.ok THEN varint
        ELSE [ok |-> TRUE,
              value |-> IF varint.value % 2 = 0 THEN varint.value \div 2
                        ELSE -((varint.value + 1) \div 2)]

RECURSIVE from_big_endian(_, _, _)
from_big_endian(data, i, v) ==
    IF i > Len(data) THEN v ELSE from_big_endian(data, i + 1, v * 256 + data[i])

\* the unsigned value of a Fixed32 or Fixed64 field: the number when its low
\* three bytes hold it, and the bytes themselves when it is wider
fixed_value(data) ==
    IF \A i \in 1..(Len(data) - 3) : data[i] = 0
    THEN from_big_endian(data, 1, 0)
    ELSE data

\* decode_message, second loop, for one field of a known id
decode_field(desc, view, data) ==
    LET made(kind, v) == [ok |-> TRUE, value |-> FieldValue(view.id, view.wire_type, kind, v)]
    IN  CASE view.wire_type = Varint ->
               LET decoded == decode_varint(data)
               IN  IF ~decoded.ok THEN decoded ELSE made("Unsigned", decoded.value)
          [] view.wire_type = ZigZagVarint ->
               LET decoded == decode_zigzag(data)
               IN  IF ~decoded.ok THEN decoded ELSE made("Signed", decoded.value)
          [] view.wire_type = Fixed32 ->
               IF Len(data) # 4 THEN Failed("TransportError", "fixed32 length mismatch")
               ELSE made("Unsigned", fixed_value(data))
          [] view.wire_type = Fixed64 ->
               IF Len(data) # 8 THEN Failed("TransportError", "fixed64 length mismatch")
               ELSE made("Unsigned", fixed_value(data))
          [] view.wire_type = LengthDelimited ->
               IF desc.preferred_kind = "String" THEN made("String", data)
               ELSE made("Bytes", data)
          [] view.wire_type = Capability ->
               Failed("Unimplemented", "capability decoding not implemented")
          [] OTHER -> made("Unsigned", 0)

RECURSIVE decode_views(_, _, _, _, _, _, _)
decode_views(descriptor, views, store, epoch, g, i, values) ==
    IF i > Len(views) THEN [ok |-> TRUE, values |-> values]
    ELSE LET d == find_field(descriptor, views[i].id)
         IN  IF d = 0
             THEN decode_views(descriptor, views, store, epoch, g, i + 1, values)
             ELSE LET got == decode_field(descriptor[d], views[i],
                                          field_data(views[i], store, epoch, g))
                  IN  IF ~got.ok THEN got
                      ELSE decode_views(descriptor, views, store, epoch, g, i + 1,
                                        Append(values, got.value))

\* decode_message, the last loop: a non-optional field without a value
missing_required(descriptor, values) ==
    \E i \in DOMAIN descriptor :
        /\ ~descriptor[i].optional
        /\ \A j \in DOMAIN values : values[j].id # descriptor[i].id

decode_message(descriptor, data, g) ==
    LET read == read_views(data, 1, << >>, 0, << >>) IN
    IF ~read.ok THEN read
    ELSE LET decoded == decode_views(descriptor, read.views, read.store, read.epoch, g,
                                     1, << >>)
         IN  IF ~decoded.ok THEN decoded
             ELSE IF missing_required(descriptor, decoded.values)
             THEN Failed("TransportError", "missing required field")
             ELSE decoded

\* The descriptors of test_runtime_serialization.cpp and one with a field of
\* every wire type that encode_value writes
RoundTripDescriptor ==
    <<FieldDescriptor(1, Varint, FALSE, "Unsigned"),
      FieldDescriptor(2, ZigZagVarint, FALSE, "Unsigned"),
      FieldDescriptor(3, LengthDelimited, TRUE, "String")>>
RequiredDescriptor ==
    <<FieldDescriptor(1, Varint, FALSE, "Unsigned"),
      FieldDescriptor(3, LengthDelimited, TRUE, "Unsigned")>>
WideDescriptor ==
    <<FieldDescriptor(1, Varint, TRUE, "Unsigned"),
      FieldDescriptor(2, ZigZagVarint, TRUE, "Unsigned"),
      FieldDescriptor(3, LengthDelimited, TRUE, "Bytes"),
      FieldDescriptor(4, Fixed32, TRUE, "Unsigned"),
      FieldDescriptor(5, Varint, FALSE, "Unsigned"),
      FieldDescriptor(6, Fixed64, TRUE, "Unsigned")>>
Descriptors == {RoundTripDescriptor, RequiredDescriptor, WideDescriptor}

FieldValues ==
    {FieldValue(1, Varint, "Unsigned", 17), FieldValue(1, Varint, "Unsigned", 300),
     FieldValue(2, ZigZagVarint, "Signed", -9), FieldValue(2, ZigZagVarint, "Signed", 150),
     FieldValue(3, LengthDelimited, "String", <<112>>),
     FieldValue(3, LengthDelimited, "Bytes", <<112>>),
     FieldValue(4, Fixed32, "Unsigned", 258), FieldValue(5, Varint, "Unsigned", 7),
     FieldValue(5, Varint, "Signed", 7), FieldValue(6, Fixed64, "Unsigned", 258)}
Messages == UNION {[1..n -> FieldValues] : n \in 0..MaxFields}

notHb1 == <<dispVars, rxVars, chanVars, stopVars, execVars, helloVars, frameVars, idVars,
           importVars, validVars, emitVars, faultVars, sendVars, joinVars, kindVars, pingVars>>

InitHb1 ==
    /\ hbPc = "idle"
    /\ hbMsg = None
    /\ hbEnc = None
    /\ hbDec = None

\* the caller builds a descriptor and the field values
Hb1Message ==
    /\ hbPc = "idle"
    /\ hbPc' = "built"
    /\ \E d \in Descriptors, m \in Messages : hbMsg' = [descriptor |-> d, values |-> m]
    /\ UNCHANGED <<hbEnc, hbDec, notHb1>>

Hb1Encode ==
    /\ hbPc = "built"
    /\ hbPc' = "encoded"
    /\ hbEnc' = encode_message(hbMsg.descriptor, hbMsg.values)
    /\ UNCHANGED <<hbMsg, hbDec, notHb1>>

\* decode_message on the bytes written, with the same or another descriptor
Hb1Decode ==
    /\ hbPc = "encoded"
    /\ hbEnc.ok
    /\ hbPc' = "decoded"
    /\ \E d \in Descriptors, g \in DanglingReads :
         hbDec' = [descriptor |-> d, dangling |-> g,
                   result |-> decode_message(d, hbEnc.bytes, g)]
    /\ UNCHANGED <<hbMsg, hbEnc, notHb1>>

\* the bytes reach decode_message with another wire-type byte in their first
\* field (the tag of every id used here is one byte, so the byte is the second)
WireTypeBytes == 0..6
Hb1Retype ==
    /\ hbPc = "encoded"
    /\ hbEnc.ok
    /\ Len(hbEnc.bytes) >= 2
    /\ hbPc' = "retyped"
    /\ \E t \in WireTypeBytes \ {hbEnc.bytes[2]} :
         hbEnc' = Ok([hbEnc.bytes EXCEPT ![2] = t])
    /\ UNCHANGED <<hbMsg, hbDec, notHb1>>

\* decode_message on those bytes
Hb1DecodeInput ==
    /\ hbPc = "retyped"
    /\ hbPc' = "checked"
    /\ \E d \in Descriptors, g \in DanglingReads :
         hbDec' = [descriptor |-> d, dangling |-> g,
                   result |-> decode_message(d, hbEnc.bytes, g)]
    /\ UNCHANGED <<hbMsg, hbEnc, notHb1>>

NextHb1 ==
    \/ Hb1Message
    \/ Hb1Encode
    \/ Hb1Decode
    \/ Hb1Retype
    \/ Hb1DecodeInput

(***************************************************************************)
(* Frame headers (frame.cpp).  A uint32 is the pair <<high, low>> of its   *)
(* 16-bit halves and a uint64 the four 16-bit parts, most significant      *)
(* first, so that every value of the type has a representation.            *)
(***************************************************************************)
FrameHeaderSize == 24
Version == 1
Magic == <<18498, 21297>>                       \* 0x48425331
CrcPolynomial == <<60856, 33568>>               \* 0xEDB88320U

\* a ^ b on n-bit values
RECURSIVE XorBits(_, _, _)
XorBits(a, b, n) ==
    IF n = 0 THEN 0 ELSE ((a + b) % 2) + 2 * XorBits(a \div 2, b \div 2, n - 1)
Xor32(x, y) == <<XorBits(x[1], y[1], 16), XorBits(x[2], y[2], 16)>>
\* r >> 1U and crc >> 8U
Shr32(x, bits) == <<x[1] \div Pow2(bits),
                    (x[2] \div Pow2(bits)) + (x[1] % Pow2(bits)) * Pow2(16 - bits)>>

\* crc32_for_byte (each round works on the value of the round before)
RECURSIVE crc32_rounds(_, _)
crc32_rounds(r, k) ==
    LET round(v) == IF v[2] % 2 = 1 THEN Xor32(CrcPolynomial, Shr32(v, 1)) ELSE Shr32(v, 1)
    IN  IF k = 0 THEN r
        ELSE CHOOSE out \in {crc32_rounds(round(v), k - 1) : v \in {r}} : TRUE
crc32_for_byte(r) == Xor32(crc32_rounds(<<0, r>>, 8), <<65280, 0>>)

\* make_crc_table
table == [i \in 0..255 |-> crc32_for_byte(i)]

\* crc32: crc = table[(crc ^ byte) & 0xFFU] ^ (crc >> 8U) for every byte
RECURSIVE crc32_from(_, _, _)
crc32_from(data, i, crc) ==
    LET step(c) == Xor32(table[XorBits(c[2] % 256, data[i], 8)], Shr32(c, 8))
    IN  IF i > Len(data) THEN crc
        ELSE CHOOSE out \in {crc32_from(data, i + 1, step(c)) : c \in {crc}} : TRUE
crc32_mut(data) == <<0, 0>>
crc32(data) == crc32_from(data, 1, <<0, 0>>)

valid_frame_type(value) == value \in 0..5

write_be16(value) == <<(value \div 256) % 256, value % 256>>
write_be32(value) == write_be16(value[1]) \o write_be16(value[2])
write_be64(value) ==
    write_be16(value[1]) \o write_be16(value[2]) \o write_be16(value[3]) \o write_be16(value[4])
read_be16(src, at) == src[at] * 256 + src[at + 1]
read_be32(src, at) == <<read_be16(src, at), read_be16(src, at + 2)>>
read_be64(src, at) ==
    <<read_be16(src, at), read_be16(src, at + 2), read_be16(src, at + 4), read_be16(src, at + 6)>>

FrameHeader(type, flags, length, stream_id) ==
    [type |-> type, flags |-> flags, length |-> length, stream_id |-> stream_id]

encode_header(header) ==
    LET out == write_be32(Magic) \o write_be16(Version) \o <<header.type, header.flags>>
               \o write_be32(header.length) \o write_be64(header.stream_id)
    IN  out \o write_be32(crc32(out))

decode_header(buffer) ==
    IF read_be32(buffer, 1) # Magic
    THEN Failed("TransportError", "invalid frame magic")
    ELSE IF read_be16(buffer, 5) # Version
    THEN Failed("TransportError", "unsupported frame version")
    ELSE IF ~valid_frame_type(buffer[7])
    THEN Failed("TransportError", "unknown frame type")
    ELSE IF crc32(SubSeq(buffer, 1, FrameHeaderSize - 4)) # read_be32(buffer, 21)
    THEN Failed("TransportError", "frame header crc mismatch")
    ELSE [ok |-> TRUE,
          header |-> FrameHeader(buffer[7], buffer[8], read_be32(buffer, 9),
                                 read_be64(buffer, 13))]

\* The headers tried: every frame type, and for each field its least and its
\* greatest value and the one of test_runtime.cpp
Headers ==
    {FrameHeader(type, flags, length, stream_id) :
        type \in 0..5, flags \in {0, FrameFlagEndStream, 255},
        length \in {<<0, 0>>, <<0, 123>>, <<65535, 65535>>},
        stream_id \in {<<0, 0, 0, 0>>, <<4660, 22136, 39612, 57072>>,
                       <<65535, 65535, 65535, 65535>>}}

\* the buffer with bit number bit (0 = least significant bit of the first byte) changed
flip_bit(buffer, bit) ==
    [buffer EXCEPT ![(bit \div 8) + 1] = XorBits(@, Pow2(bit % 8), 8)]

notFrame == <<dispVars, rxVars, chanVars, stopVars, execVars, helloVars, hb1Vars, idVars,
             importVars, validVars, emitVars, faultVars, sendVars, joinVars, kindVars, pingVars>>

InitFrame ==
    /\ fhPc = "idle"
    /\ fhHeader = None
    /\ fhBytes = << >>
    /\ fhDecoded = None
    /\ fhFlip = -1
    /\ fhDamaged = None

FrameBuild ==
    /\ fhPc = "idle"
    /\ fhPc' = "built"
    /\ \E header \in Headers : fhHeader' = header
    /\ UNCHANGED <<fhBytes, fhDecoded, fhFlip, fhDamaged, notFrame>>

FrameEncode ==
    /\ fhPc = "built"
    /\ fhPc' = "encoded"
    /\ fhBytes' = encode_header(fhHeader)
    /\ UNCHANGED <<fhHeader, fhDecoded, fhFlip, fhDamaged, notFrame>>

FrameDecode ==
    /\ fhPc = "encoded"
    /\ fhPc' = "decoded"
    /\ fhDecoded' = decode_header(fhBytes)
    /\ UNCHANGED <<fhHeader, fhBytes, fhFlip, fhDamaged, notFrame>>

\* one bit of the first 20 bytes changes on the way
FrameDamage ==
    /\ fhPc = "decoded"
    /\ fhPc' = "damaged"
    /\ \E bit \in 0..((FrameHeaderSize - 4) * 8 - 1) : fhFlip' = bit
    /\ UNCHANGED <<fhHeader, fhBytes, fhDecoded, fhDamaged, notFrame>>

FrameDecodeDamaged ==
    /\ fhPc = "damaged"
    /\ fhPc' = "rejected"
    /\ fhDamaged' = decode_header(flip_bit(fhBytes, fhFlip))
    /\ UNCHANGED <<fhHeader, fhBytes, fhDecoded, fhFlip, notFrame>>

NextFrame ==
    \/ FrameBuild
    \/ FrameEncode
    \/ FrameDecode
    \/ FrameDamage
    \/ FrameDecodeDamaged

(***************************************************************************)
(* Identifiers of the generated metadata (codegen/emitter.cpp).  A uint64  *)
(* is the sequence of its eight bytes, least significant first; the        *)
(* decimal literal hash_literal prints denotes the value itself.           *)
(***************************************************************************)
MaxNameLen == 2

kFNVOffset == <<131, 3, 157, 115, 176, 15, 101, 20>>        \* 1469598103934665603ULL
kFNVPrime == <<179, 1, 0, 0, 0, 1, 0, 0>>                   \* 1099511628211ULL

\* a * b on uint64: the low eight bytes of the product
Mul64(a, b) ==
    LET column(k) == LET RECURSIVE sum(_)
                         sum(i) == IF i = 0 THEN 0 ELSE a[i] * b[k + 1 - i] + sum(i - 1)
                     IN  sum(k)
        RECURSIVE digits(_, _)
        digits(k, carry) ==
            IF k > 8 THEN << >>
            ELSE <<(column(k) + carry) % 256>> \o digits(k + 1, (column(k) + carry) \div 256)
    IN  digits(1, 0)

\* stable_hash: hash ^= c; hash *= prime, for every character of the text
RECURSIVE hash_from(_, _, _, _)
hash_from(text, i, hash, prime) ==
    LET next(h) == Mul64([h EXCEPT ![1] = XorBits(@, text[i], 8)], prime)
    IN  IF i > Len(text) THEN hash
        ELSE CHOOSE out \in {hash_from(text, i + 1, next(h), prime) : h \in {hash}} : TRUE
stable_hash(text) == hash_from(text, 1, kFNVOffset, kFNVPrime)

\* generate_detail_namespace: the ids of <Interface>Metadata and <method>Metadata
Dot == <<46>>
metadata_ids(module, iface, method) ==
    [module_id |-> stable_hash(module),
     interface_id |-> stable_hash(module \o Dot \o iface),
     method_id |-> stable_hash(module \o Dot \o iface \o Dot \o method)]

\* identifiers of one to MaxNameLen letters out of a, m and z
Names == UNION {[1..n -> {97, 109, 122}] : n \in 1..MaxNameLen}

notId == <<dispVars, rxVars, chanVars, stopVars, execVars, helloVars, hb1Vars, frameVars,
          importVars, validVars, emitVars, faultVars, sendVars, joinVars, kindVars, pingVars>>

InitId ==
    /\ idPc = "idle"
    /\ idNames = None
    /\ idMeta = None

\* a module with an interface and a method of it reaches the generator
IdParse ==
    /\ idPc = "idle"
    /\ idPc' = "parsed"
    /\ \E module \in Names, iface \in Names, method \in Names :
         idNames' = [module |-> module, iface |-> iface, method |-> method]
    /\ UNCHANGED <<idMeta, notId>>

IdEmit ==
    /\ idPc = "parsed"
    /\ idPc' = "emitted"
    /\ idMeta' = metadata_ids(idNames.module, idNames.iface, idNames.method)
    /\ UNCHANGED <<idNames, notId>>

NextId ==
    \/ IdParse
    \/ IdEmit

(***************************************************************************)
(* parse_imports (frontend/frontend.cpp) on the files of a directory and   *)
(* of its sub-directory "sub".  A path is the sequence of its components;  *)
(* "." names the directory it stands in, so the operating system opens the *)
(* file named by the other components.  The recursion is the stack of its  *)
(* calls.  A path of more than MaxPathLen components is longer than the    *)
(* system accepts: read_file fails on it.                                  *)
(***************************************************************************)
MaxImports == 2
MaxPathLen == 3

DiskFiles == {<<"a.idl">>, <<"sub", "b.idl">>}
\* the paths an import statement can name
ImportPaths == {<<"a.idl">>, <<".", "a.idl">>, <<"b.idl">>, <<"sub", "b.idl">>}
ImportLists == UNION {[1..n -> ImportPaths] : n \in 0..MaxImports}
RootPath == <<"a.idl">>

\* the file std::filesystem opens for a path
opened_file(path) == SelectSeq(path, LAMBDA part : part # ".")
\* fs::path::remove_filename
remove_filename(path) == SubSeq(path, 1, Len(path) - 1)
\* (root_path / import.path).string()
import_key(path, import) == remove_filename(path) \o import
\* read_file: is_regular_file and open succeed
read_file_ok(path) == Len(path) <= MaxPathLen /\ opened_file(path) \in DiskFiles

notImport == <<dispVars, rxVars, chanVars, stopVars, execVars, helloVars, hb1Vars, frameVars,
               idVars,
               validVars, emitVars, faultVars, sendVars, joinVars, kindVars, pingVars>>

InitImport ==
    /\ importsOf = [f \in DiskFiles |-> << >>]
    /\ all_imports = {}
    /\ callStack = << >>
    /\ parseResult = "none"
    /\ parsedTimes = [f \in DiskFiles |-> 0]

\* the files are written, then parse_program calls parse_imports on the root
ParseProgram ==
    /\ parseResult = "none"
    /\ \E texts \in [DiskFiles -> ImportLists] : importsOf' = texts
    /\ callStack' = <<[path |-> RootPath, pc |-> "enter", next |-> 1]>>
    /\ parseResult' = "running"
    /\ UNCHANGED <<all_imports, parsedTimes, notImport>>

\* parse_imports up to its loop: parse_single_file, then try_emplace; an
\* error returns through every caller
ParseEnter ==
    /\ callStack # << >>
    /\ LET top == callStack[Len(callStack)]
       IN  /\ top.pc = "enter"
           /\ IF ~read_file_ok(top.path)
              THEN /\ callStack' = << >>
                   /\ parseResult' = "error"
                   /\ UNCHANGED <<all_imports, parsedTimes>>
              ELSE /\ parsedTimes' = [parsedTimes EXCEPT ![opened_file(top.path)] = @ + 1]
                   /\ IF top.path \in all_imports
                      THEN /\ callStack' = << >>
                           /\ parseResult' = "error"
                           /\ all_imports' = all_imports
                      ELSE /\ all_imports' = all_imports \cup {top.path}
                           /\ callStack' = [callStack EXCEPT ![Len(callStack)].pc = "loop"]
                           /\ parseResult' = parseResult
    /\ UNCHANGED <<importsOf, notImport>>

\* parse_imports, one round of the loop over the imports, or the return
ParseLoop ==
    /\ callStack # << >>
    /\ LET top == callStack[Len(callStack)]
           imports == importsOf[opened_file(top.path)]
           here == [callStack EXCEPT ![Len(callStack)].next = @ + 1]
       IN  /\ top.pc = "loop"
           /\ IF top.next > Len(imports)
              THEN /\ callStack' = SubSeq(callStack, 1, Len(callStack) - 1)
                   /\ parseResult' = IF Len(callStack) = 1 THEN "ok" ELSE parseResult
              ELSE /\ parseResult' = parseResult
                   /\ callStack' =
                        IF import_key(top.path, imports[top.next]) \in all_imports
                        THEN here
                        ELSE Append(here, [path |-> import_key(top.path, imports[top.next]),
                                           pc |-> "enter", next |-> 1])
    /\ UNCHANGED <<importsOf, all_imports, parsedTimes, notImport>>

NextImport ==
    \/ ParseProgram
    \/ ParseEnter
    \/ ParseLoop

(***************************************************************************)
(* The id checks of the semantic validator (frontend/semantic/utility.hpp) *)
(* run by StructValidationPass and InterfaceValidationPass on the fields   *)
(* of a struct, the parameters of a method and the fields of its result.   *)
(* An id is a std::uint64_t, kept as four 16-bit words, the highest first. *)
(***************************************************************************)
MaxIds == 2

Id64(n) == <<0, 0, n \div 65536, n % 65536>>
kMaxId == Id64(2147483647)
Lt64(a, b) ==
    \E i \in 1..4 : a[i] < b[i] /\ \A j \in 1..(i - 1) : a[j] = b[j]
\* prev + 1 in std::uint64_t
Inc64(a) ==
    LET carry(i) == \A j \in (i + 1)..4 : a[j] = 65535
    IN  [i \in 1..4 |-> IF carry(i) THEN (a[i] + 1) % 65536 ELSE a[i]]

Diagnostic(severity, kind, owner, ids) ==
    [severity |-> severity, kind |-> kind, owner |-> owner, ids |-> ids]

check_id_bounds_mut(id, owner) == << >>

check_id_bounds(id, owner) ==
    IF id = Id64(0) THEN <<Diagnostic("Error", "Invalid", owner, <<id>>)>>
    ELSE IF Lt64(kMaxId, id) THEN <<Diagnostic("Error", "Invalid", owner, <<id>>)>>
    ELSE << >>

\* the first loop of check_id_collection, from node i on
RECURSIVE check_ids_from(_, _, _)
check_ids_from(ids, i, owner) ==
    IF i > Len(ids) THEN << >>
    ELSE check_id_bounds(ids[i], owner)
         \o (IF \E j \in 1..(i - 1) : ids[j] = ids[i]
             THEN <<Diagnostic("Error", "Duplicate", owner, <<ids[i]>>)>>
             ELSE << >>)
         \o check_ids_from(ids, i + 1, owner)

\* the second loop of check_id_collection, over the sorted ids
RECURSIVE gap_notes_from(_, _, _)
gap_notes_from(ordered, i, owner) ==
    IF i > Len(ordered) THEN << >>
    ELSE (IF Lt64(Inc64(ordered[i - 1]), ordered[i])
          THEN <<Diagnostic("Note", "Gap", owner, <<ordered[i - 1], ordered[i]>>)>>
          ELSE << >>)
         \o gap_notes_from(ordered, i + 1, owner)

check_id_collection(ids, owner) ==
    check_ids_from(ids, 1, owner)
    \o gap_notes_from(SortSeq(ids, Lt64), 2, owner)

\* the ids a container can hold
IdValues == {Id64(0), Id64(1), Id64(2147483647), <<0, 0, 32768, 0>>}
IdLists == UNION {[1..n -> IdValues] : n \in 0..MaxIds}

notValid == <<dispVars, rxVars, chanVars, stopVars, execVars, helloVars, hb1Vars, frameVars,
              idVars, importVars,
               emitVars, faultVars, sendVars, joinVars, kindVars, pingVars>>

InitValid ==
    /\ validPc = "struct"
    /\ nodes = << >>
    /\ sink = << >>

\* StructValidationPass::run on the one struct of the program
ValidateStruct ==
    /\ validPc = "struct"
    /\ \E ids \in IdLists :
         /\ nodes' = ids
         /\ sink' = sink \o check_id_collection(ids, "struct")
    /\ validPc' = "params"
    /\ UNCHANGED notValid

\* InterfaceValidationPass::run, the parameters of the one method
ValidateParams ==
    /\ validPc = "params"
    /\ \E ids \in IdLists :
         /\ nodes' = ids
         /\ sink' = sink \o check_id_collection(ids, "params")
    /\ validPc' = "result"
    /\ UNCHANGED notValid

\* InterfaceValidationPass::run, the result tuple of the method
ValidateResult ==
    /\ validPc = "result"
    /\ \E ids \in IdLists :
         /\ nodes' = ids
         /\ sink' = sink \o check_id_collection(ids, "result")
    /\ validPc' = "done"
    /\ UNCHANGED notValid

NextValid ==
    \/ ValidateStruct
    \/ ValidateParams
    \/ ValidateResult

(***************************************************************************)
(* write_file_if_changed (codegen/file_writer.cpp) and its three calls in  *)
(* Emitter::emit_module for a module with one interface.  Whether the      *)
(* existing file can be opened for reading and the path for writing is     *)
(* the file system's answer at the time of the call.                       *)
(***************************************************************************)
MaxContent == 2
MaxRuns == 2

OutputPaths == {"header", "client", "server"}
Modules == {1, 2}
Contents == UNION {[1..n -> Modules] : n \in 0..MaxContent}
NoFile == [exists |-> FALSE, bytes |-> << >>]
File(bytes) == [exists |-> TRUE, bytes |-> bytes]

\* the generated text of a module, one per output file
generate_header(module) == <<module>>
generate_client_source(module) == <<module, 1>>
generate_server_source(module) == <<module, 2>>
generated(path, module) ==
    CASE path = "header" -> generate_header(module)
      [] path = "client" -> generate_client_source(module)
      [] path = "server" -> generate_server_source(module)

write_file_if_changed_mut(file, content, canRead, canWrite) ==
    [file |-> File(content), wrote |-> TRUE, ok |-> TRUE]

\* the file afterwards, whether it was opened for writing, whether {} is returned
write_file_if_changed(file, content, canRead, canWrite) ==
    IF file.exists /\ ~canRead
    THEN [file |-> file, wrote |-> FALSE, ok |-> FALSE]
    ELSE LET existing == IF file.exists THEN file.bytes ELSE << >>
         IN  IF existing = content
             THEN [file |-> file, wrote |-> FALSE, ok |-> TRUE]
             ELSE IF ~canWrite
                  THEN [file |-> file, wrote |-> FALSE, ok |-> FALSE]
                  ELSE [file |-> File(content), wrote |-> TRUE, ok |-> TRUE]

notEmit == <<dispVars, rxVars, chanVars, stopVars, execVars, helloVars, hb1Vars, frameVars,
             idVars, importVars, validVars,
               faultVars, sendVars, joinVars, kindVars, pingVars>>

InitEmit ==
    /\ disk = [p \in OutputPaths |-> NoFile]
    /\ emitPc = "setup"
    /\ emitInput = 0
    /\ prevInput = 0
    /\ emitResult = "none"
    /\ emitRuns = 0
    /\ wrote = {}

\* the output directory as the generator finds it
FsPrepare ==
    /\ emitPc = "setup"
    /\ \E files \in [OutputPaths -> {NoFile} \cup {File(b) : b \in Contents}] : disk' = files
    /\ emitPc' = "idle"
    /\ UNCHANGED <<emitInput, prevInput, emitResult, emitRuns, wrote, notEmit>>

\* emit_module up to its first write
EmitModule(module) ==
    /\ emitPc = "idle"
    /\ emitRuns < MaxRuns
    /\ emitRuns' = emitRuns + 1
    /\ prevInput' = IF emitResult = "ok" THEN emitInput ELSE 0
    /\ emitInput' = module
    /\ emitResult' = "running"
    /\ emitPc' = "header"
    /\ UNCHANGED <<disk, wrote, notEmit>>

\* one write_file_if_changed call of emit_module and the test of its result
EmitWrite(path, after) ==
    /\ emitPc = path
    /\ \E canRead \in BOOLEAN, canWrite \in BOOLEAN :
         LET result == write_file_if_changed(disk[path], generated(path, emitInput),
                                             canRead, canWrite)
         IN  /\ disk' = [disk EXCEPT ![path] = result.file]
             /\ wrote' = IF result.wrote THEN wrote \cup {<<emitRuns, path>>} ELSE wrote
             /\ emitPc' = IF result.ok THEN after ELSE "idle"
             /\ emitResult' = IF ~result.ok THEN "error"
                              ELSE IF after = "idle" THEN "ok" ELSE emitResult
    /\ UNCHANGED <<emitInput, prevInput, emitRuns, notEmit>>

NextEmit ==
    \/ FsPrepare
    \/ \E module \in Modules : EmitModule(module)
    \/ EmitWrite("header", "client")
    \/ EmitWrite("client", "server")
    \/ EmitWrite("server", "idle")

(***************************************************************************)
(* Transport errors the peer causes.  Once the peer has closed its end, a  *)
(* send on the session fails, while receive() still returns the frames     *)
(* that arrived before and then fails.  SpecFault is the reactor of Spec    *)
(* with these two steps, without client calls and executor tasks.          *)
(***************************************************************************)
notFault == <<execVars, helloVars, hb1Vars, frameVars, idVars, importVars, validVars, emitVars,
               sendVars, joinVars, kindVars, pingVars>>

InitFault == peerGone = [s \in SessionIds |-> FALSE]

\* the peer closes the connection
PeerClose(s) ==
    /\ ~peerGone[s]
    /\ peerGone' = [peerGone EXCEPT ![s] = TRUE]
    /\ UNCHANGED <<dispVars, rxVars, chanVars, stopVars, notFault>>

\* Session::io_loop: receive() failed because the peer is gone:
\* error_callback_ -> handle_session_error -> remove_session, then break
IoPeerClosed(s) ==
    /\ io[s].pc = "loop"
    /\ running_[s]
    /\ chanOpen[s]
    /\ peerGone[s]
    /\ io' = [io EXCEPT ![s].pc = "done"]
    /\ sessions_' = remove_session(sessions_, s)
    /\ UNCHANGED <<dispVars, running_, chanOpen, peer_encoding_, recvCount, frame_queue_, rt,
                   tasks, sent, pushLog, handleLog, handlerCalls, contCalls, respLog, bodyRuns,
                   stopping_, calls, chanVars, stopVars, extVars>>

NextFault ==
    \/ \E s \in SessionIds : AddSession(s)
    \/ \E s \in SessionIds : SendInitialSettings(s)
    \/ \E s \in SessionIds : IoReceive(s)
    \/ \E s \in SessionIds : IoEnqueue(s)
    \/ \E s \in SessionIds : IoFail(s)
    \/ \E s \in SessionIds : IoExit(s)
    \/ \E t \in RunThreads : PopFrame(t)
    \/ \E t \in RunThreads : HandleFrame(t)
    \/ \E t \in RunThreads : GoodbyeJoined(t)
    \/ \E s \in SessionIds : PeerClose(s)
    \/ \E s \in SessionIds : IoPeerClosed(s)

(***************************************************************************)
(* UdsChannel::send (runtime/uds.cpp) called on one session by several     *)
(* threads: Session::send forwards to it and neither takes a lock.  Each   *)
(* write_full is taken to reach the descriptor whole, which is the best    *)
(* the kernel does; the header and the payload are two write_full calls.   *)
(***************************************************************************)
MaxPayload == 2

\* the threads that send on a session: an executor worker running a
\* responder, the run loop echoing a Ping, the thread sending the Settings
Senders == {"worker", "reactor", "adder"}
\* the payload sizes of those frames: a response has a status and a body, a
\* Ping echo any payload, the Settings one byte
PayloadSizes(t) ==
    CASE t = "worker" -> 1..MaxPayload
      [] t = "reactor" -> 0..MaxPayload
      [] t = "adder" -> {1}

Written(t, part, size) == [by |-> t, part |-> part, size |-> size]

notSend == <<dispVars, rxVars, chanVars, stopVars, execVars, helloVars, hb1Vars, frameVars,
             idVars, importVars, validVars, emitVars, faultVars, joinVars, kindVars, pingVars>>

InitSend ==
    /\ wire = << >>
    /\ sender = [t \in Senders |-> [pc |-> "idle", length |-> 0]]

\* send, up to the first write: the descriptor is valid, header.length is set
\* and the header encoded
SendEnter(t) ==
    /\ sender[t].pc = "idle"
    /\ \E size \in PayloadSizes(t) :
         sender' = [sender EXCEPT ![t] = [pc |-> "header", length |-> size]]
    /\ UNCHANGED <<wire, notSend>>

\* write_full(current_fd, header_buffer); with an empty payload send returns
SendWriteHeader(t) ==
    /\ sender[t].pc = "header"
    /\ wire' = Append(wire, Written(t, "header", FrameHeaderSize))
    /\ sender' = [sender EXCEPT ![t].pc = IF sender[t].length = 0 THEN "returned"
                                           ELSE "payload"]
    /\ UNCHANGED notSend

\* write_full(current_fd, frame.payload), and send returns
SendWritePayload(t) ==
    /\ sender[t].pc = "payload"
    /\ wire' = Append(wire, Written(t, "payload", sender[t].length))
    /\ sender' = [sender EXCEPT ![t].pc = "returned"]
    /\ UNCHANGED notSend

NextSend ==
    \/ \E t \in Senders : SendEnter(t)
    \/ \E t \in Senders : SendWriteHeader(t)
    \/ \E t \in Senders : SendWritePayload(t)

(***************************************************************************)
(* Context::join() against Context::stop() (context.cpp), for a Context    *)
(* with one listener and no connection arriving.  With managed_reactor     *)
(* start() runs the run thread "r1" as reactor_thread_; without it start() *)
(* does nothing and reactor_thread_ is not joinable.  SpecJoin takes the   *)
(* threads of SpecStop that matter here.                                   *)
(***************************************************************************)
ReactorThread == "r1"

notJoin == <<execVars, helloVars, hb1Vars, frameVars, idVars, importVars, validVars, emitVars,
             faultVars, sendVars, kindVars, pingVars>>

InitJoin ==
    /\ joiner = "idle"
    /\ listeners_mutex_ = None
    /\ reactor_running_ = FALSE

\* Context::start with managed_reactor: reactor_thread_ = std::thread(run)
ContextStart ==
    /\ ~reactor_running_
    /\ runner[ReactorThread] = "outside"
    /\ reactor_running_' = TRUE
    /\ runner' = [runner EXCEPT ![ReactorThread] = "pop"]
    /\ UNCHANGED <<joiner, listeners_mutex_, stop_requested_, stopper, queue_mutex_, queued,
                   listener, sess, session_list, arrivals, conns, dispVars, rxVars, chanVars,
                   notJoin>>

\* join(): reactor_thread_.join() returns, or the thread is not joinable
JoinReactor ==
    /\ joiner = "idle"
    /\ reactor_running_ => runner[ReactorThread] = "returned"
    /\ joiner' = "lock"
    /\ UNCHANGED <<listeners_mutex_, reactor_running_, dispVars, rxVars, chanVars, stopVars,
                   notJoin>>

\* join(): std::lock_guard lock(listeners_mutex_)
JoinLock ==
    /\ joiner = "lock"
    /\ listeners_mutex_ = None
    /\ listeners_mutex_' = "joiner"
    /\ joiner' = "listeners"
    /\ UNCHANGED <<reactor_running_, dispVars, rxVars, chanVars, stopVars, notJoin>>

\* join(): state->thread.join() returns for the listener, if there is one;
\* listeners_.clear(), the lock is released, reactor_running_ = false
JoinListeners ==
    /\ joiner = "listeners"
    /\ listener.pc \in {"none", "returned"}
    /\ listeners_mutex_' = None
    /\ reactor_running_' = FALSE
    /\ joiner' = "returned"
    /\ UNCHANGED <<dispVars, rxVars, chanVars, stopVars, notJoin>>

NextJoin ==
    \/ Listen
    \/ AcceptLoop
    \/ AcceptCall
    \/ AcceptFailed
    \/ ContextStart
    \/ \E t \in RunThreads : PopCheck(t)
    \/ \E t \in RunThreads : PopWait(t)
    \/ \E t \in RunThreads : RunEmpty(t)
    \/ StopCall
    \/ StopNotify
    \/ StopListeners
    \/ StopSnapshot
    \/ StopSession
    \/ JoinReactor
    \/ JoinLock
    \/ JoinListeners

(***************************************************************************)
(* A Context with two client-side sessions: Context::connect called twice. *)
(* Both sessions share the Context's dispatcher.                           *)
(***************************************************************************)
notKind == <<execVars, hb1Vars, frameVars, idVars, importVars, validVars, emitVars, faultVars,
             sendVars, joinVars, pingVars>>

InitKind == kind_ = [s \in SessionIds |-> IF s = "srv" THEN "Server" ELSE "Client"]

\* Context::connect: add_session(channel, Session::Kind::Client) up to
\* Session::start
Connect(s) ==
    /\ io[s].pc = "none"
    /\ adder[s] = "none"
    /\ kind_' = [kind_ EXCEPT ![s] = "Client"]
    /\ running_' = [running_ EXCEPT ![s] = TRUE]
    /\ io' = [io EXCEPT ![s].pc = "loop"]
    /\ sessions_' = sessions_ \cup {s}
    /\ adder' = [adder EXCEPT ![s] = "started"]
    /\ UNCHANGED <<dispVars, chanOpen, peer_encoding_, recvCount, frame_queue_, rt, tasks, sent,
                   pushLog, handleLog, handlerCalls, contCalls, respLog, bodyRuns, stopping_,
                   calls, chanVars, stopVars, notKind>>

NextClients ==
    \/ \E s \in SessionIds : Connect(s)
    \/ \E s \in SessionIds : SendInitialSettings(s)
    \/ \E s \in SessionIds : IoReceive(s)
    \/ \E s \in SessionIds : IoEnqueue(s)
    \/ \E t \in RunThreads : PopFrame(t)
    \/ \E t \in RunThreads : HandleFrame(t)
    \/ ExecRun(FewOutcomes)
    \/ \E s \in SessionIds, encode_ok \in BOOLEAN : ClientCall(s, encode_ok)

(***************************************************************************)
(* Two Contexts joined by one channel (context.cpp): each side's I/O loop  *)
(* moves the frames that arrive into its queue, each side's run loop       *)
(* handles them, and handle_ping answers a Ping on the same session.       *)
(* Both sides have sent their Settings.                                    *)
(***************************************************************************)
Sides == {"a", "b"}
Peer(c) == IF c = "a" THEN "b" ELSE "a"
\* the Ping frames delivered from outside
PingFrames ==
    {Frame("Ping", flags, stream_id, payload) :
        flags \in {0, FrameFlagEndStream}, stream_id \in {0, 1, 2},
        payload \in {<< >>, <<7>>, <<7, 8>>}}

notPing == <<dispVars, rxVars, chanVars, stopVars, execVars, helloVars, hb1Vars, frameVars,
             idVars, importVars, validVars, emitVars, faultVars, sendVars, joinVars, kindVars>>

InitPing ==
    /\ pingInbox = [c \in Sides |-> <<Frame("Settings", 0, 0, <<EncodingHb1>>)>>]
    /\ pingQueue = [c \in Sides |-> << >>]
    /\ pinged = FALSE

\* a single Ping frame reaches one side
PingArrives(c) ==
    /\ ~pinged
    /\ pinged' = TRUE
    /\ \E frame \in PingFrames : pingInbox' = [pingInbox EXCEPT ![c] = Append(@, frame)]
    /\ UNCHANGED <<pingQueue, notPing>>

\* Session::io_loop: receive a frame, enqueue_frame
PingIoLoop(c) ==
    /\ pingInbox[c] # << >>
    /\ pingInbox' = [pingInbox EXCEPT ![c] = Tail(@)]
    /\ pingQueue' = [pingQueue EXCEPT ![c] = enqueue(@, Head(pingInbox[c]))]
    /\ UNCHANGED <<pinged, notPing>>

\* run_loop: pop_frame, handle_frame; handle_ping sends its answer to the peer
PingRunLoop(c) ==
    /\ pingQueue[c] # << >>
    /\ pingQueue' = [pingQueue EXCEPT ![c] = Tail(@)]
    /\ pingInbox' = IF Head(pingQueue[c]).type = "Ping"
                THEN [pingInbox EXCEPT ![Peer(c)] = Append(@, ping_response(Head(pingQueue[c])))]
                ELSE pingInbox
    /\ UNCHANGED <<pinged, notPing>>

NextPing ==
    \/ \E c \in Sides : PingArrives(c)
    \/ \E c \in Sides : PingIoLoop(c)
    \/ \E c \in Sides : PingRunLoop(c)

Init == InitDisp /\ InitRx /\ InitChan /\ InitStop /\ InitExec /\ InitHb1 /\ InitFrame /\ InitId
        /\ InitImport /\ InitValid /\ InitEmit /\ InitFault /\ InitSend /\ InitJoin /\ InitKind /\ InitPing
SpecDisp == Init /\ [][NextDisp]_vars
Spec == Init /\ [][NextRx]_vars
SpecServer == Init /\ [][NextServer]_vars
SpecChan == Init /\ [][NextChan]_vars
SpecStop == Init /\ [][NextStop]_vars
SpecExec == Init /\ [][NextExec]_vars
SpecHb1 == Init /\ [][NextHb1]_vars
SpecFrame == Init /\ [][NextFrame]_vars
SpecId == Init /\ [][NextId]_vars
SpecImport == Init /\ [][NextImport]_vars
SpecValid == Init /\ [][NextValid]_vars
SpecEmit == Init /\ [][NextEmit]_vars
SpecFault == Init /\ [][NextFault]_vars
SpecSend == Init /\ [][NextSend]_vars
SpecJoin == Init /\ [][NextJoin]_vars
SpecClients == Init /\ [][NextClients]_vars
\* every thread that can step does so in the end
SpecPing == Init /\ [][NextPing]_vars
            /\ \A c \in Sides : WF_vars(PingIoLoop(c)) /\ WF_vars(PingRunLoop(c))

(***************************************************************************)
(* Claims on the dispatcher (SpecDisp).                                    *)
(***************************************************************************)

\* C5: no two open_stream() calls return the same id, the first id returned
\* is 1, and the ids one caller gets over its successive calls increase.
C5_StreamIdsUnique ==
    /\ \A i, j \in 1..Len(openLog) : i # j => openLog[i][2] # openLog[j][2]
    /\ openLog # << >> => openLog[1][2] = 1
    /\ \A i, j \in 1..Len(openLog) :
         (i < j /\ openLog[i][1] = openLog[j][1]) => openLog[i][2] < openLog[j][2]

C5_Witness ==
    /\ Len(openLog) >= 3
    /\ \E i, j \in 1..Len(openLog) : i < j /\ openLog[i][1] # openLog[j][1]
    /\ \E i, j \in 1..Len(openLog) : i < j /\ openLog[i][1] = openLog[j][1]

\* C6: a continuation stored by set_response_handler is returned by at most
\* one take_response_handler call, and a take that does not return it returns
\* nothing unless another continuation was stored for the id meanwhile;
\* close_stream removes the id's continuation, invokes nothing and leaves the
\* continuations of the other ids as they were.
C6_TakeAtMostOnce ==
    /\ [](\A c \in DOMAIN taken : taken[c] <= 1)
    /\ [][(lastOp'.op = "take") =>
            /\ lastOp'.id \notin DOMAIN handlers_'
            /\ lastOp'.result = (IF lastOp'.id \in DOMAIN handlers_
                                 THEN handlers_[lastOp'.id] ELSE None)
            /\ \A k \in (DOMAIN handlers_) \ {lastOp'.id} :
                 k \in DOMAIN handlers_' /\ handlers_'[k] = handlers_[k]]_vars
    /\ [][(lastOp'.op = "close") =>
            /\ lastOp'.id \notin DOMAIN handlers_'
            /\ invoked' = invoked
            /\ taken' = taken
            /\ \A k \in (DOMAIN handlers_) \ {lastOp'.id} :
                 k \in DOMAIN handlers_' /\ handlers_'[k] = handlers_[k]]_vars

C6_Witness ==
    /\ lastOp.op = "take"
    /\ lastOp.result = None
    /\ \E c \in DOMAIN taken : c[1] = lastOp.id /\ taken[c] = 1
    /\ \E k \in DOMAIN handlers_ : k # lastOp.id

(***************************************************************************)
(* Claims on the reactor (Spec).                                           *)
(***************************************************************************)
NotTornDown(s) == s \in sessions_ /\ running_[s] /\ chanOpen[s]
Pending(c) == \E i \in DOMAIN tasks : tasks[i].kind = "cont" /\ tasks[i].cont = c

\* C1: for a request whose Data frame was sent, on a session that is not torn
\* down: once a Data frame with its stream id was dispatched on the session
\* (and the executor ran what was scheduled), the continuation has been
\* invoked exactly once, whatever the payload; and never more than once.
C1_ContinuationExactlyOnce ==
    \A c \in DOMAIN calls :
        /\ invoked[c] <= 1
        /\ (calls[c].sent /\ calls[c].answered >= 1 /\ ~Pending(c)
              /\ NotTornDown(calls[c].session)) => invoked[c] = 1

\* C4: frames of one session are pushed on the queue in receive order, and
\* handle_frame is invoked for them in receive order.
C4_FifoPerSession ==
    /\ \A i, j \in 1..Len(pushLog) :
         (pushLog[i][1] = pushLog[j][1] /\ pushLog[i][2] < pushLog[j][2]) => i < j
    /\ \A i, j \in 1..Len(handleLog) :
         (handleLog[i].session = handleLog[j].session /\ handleLog[i].seq < handleLog[j].seq)
            => i < j

\* C7: a registered handler and a response continuation are only ever invoked
\* through the executor, never directly by the thread running the loop.
C7_OnlyViaExecutor ==
    /\ \A h \in handlerCalls : h.by = "executor"
    /\ \A c \in contCalls : c.by = "executor"

\* C8: the response frames sent for a request that found a handler are Data
\* frames with EndStream on the request's session and stream id, and there is
\* at most one of them per request.
C8_OneResponsePerRequest ==
    \A h \in handlerCalls :
        LET rs == LogAt(respLog, <<h.session, h.seq>>)
        IN  /\ Len(rs) <= 1
            /\ \A i \in DOMAIN rs :
                 /\ rs[i].session = h.session
                 /\ rs[i].frame.type = "Data"
                 /\ rs[i].frame.flags = FrameFlagEndStream
                 /\ rs[i].frame.stream_id = h.stream_id

\* C11: the result the callback gets for a NotFound reply differs from the
\* results the continuation produces for ApplicationError, InvalidRequest and
\* InternalError replies.
C11_NotFoundObservable ==
    \A k \in contCalls :
        k.status = StatusNotFound =>
            \A other \in {StatusApplicationError, StatusInvalidRequest, StatusInternalError} :
                k.result # callback_result(Response(other, << >>))

\* The frames the Context itself wrote to the channel of session s: all but
\* the request frames a client stub writes to the channel it was given
ContextSent(s) ==
    SelectSeq(sent[s], LAMBDA f : ~(SessionKind(s) = "Client" /\ f.type = "Data"))

\* C15: the first frame the Context sends on the channel of a session is the
\* Settings frame with the one-byte payload Encoding::Hb1, before any Ping
\* echo or response; and it has been sent when add_session is over and the
\* channel is open.
C15_SettingsFirst ==
    \A s \in SessionIds :
        /\ ContextSent(s) # << >> =>
               Head(ContextSent(s)) = Frame("Settings", 0, 0, <<EncodingHb1>>)
        /\ (adder[s] = "done" /\ chanOpen[s]) =>
               \E i \in DOMAIN sent[s] : sent[s][i] = Frame("Settings", 0, 0, <<EncodingHb1>>)

(***************************************************************************)
(* Claims on the server data path (SpecServer).                            *)
(***************************************************************************)
\* C9: a payload that is not five well-formed varints with encoding HB1 is
\* answered InvalidRequest, a well-formed one for an interface without handler
\* NotFound; in both cases by exactly one Data+EndStream frame on the stream
\* id of the request's header, and no handler is invoked.
C9_RejectedRequests ==
    \A i \in DOMAIN handleLog :
        LET h == handleLog[i]
            rs == LogAt(respLog, <<h.session, h.seq>>)
            rejected == ~h.truth.wellformed \/ h.truth.interface_id \notin DOMAIN Registry
        IN  (h.type = "Data" /\ SessionKind(h.session) = "Server" /\ rejected) =>
              /\ Len(rs) = 1
              /\ rs[1].by = "reactor"
              /\ rs[1].sent
              /\ rs[1].session = h.session
              /\ rs[1].frame = Frame("Data", FrameFlagEndStream, h.stream_id,
                                     <<EncodingHb1,
                                       IF h.truth.wellformed THEN StatusNotFound
                                       ELSE StatusInvalidRequest>>)
              /\ SelectSeq(sent[h.session], LAMBDA f : f.type = "Data") = <<rs[1].frame>>
              /\ handlerCalls = {}
              /\ tasks = << >>
              /\ bodyRuns = << >>

C9_Witness ==
    /\ \E i \in DOMAIN handleLog :
         /\ ~handleLog[i].truth.wellformed
         /\ Len(LogAt(respLog, <<"srv", 1>>)) = 1
         /\ Len(sent["srv"]) = 2
         /\ Len(sent["srv"][2].payload) = 2
    /\ rt["r1"].pc = "idle"

\* The server-side requests handled so far that the handler of bind_<Interface>
\* was found for
BoundRequests ==
    {i \in DOMAIN handleLog :
        /\ handleLog[i].type = "Data"
        /\ SessionKind(handleLog[i].session) = "Server"
        /\ handleLog[i].truth.wellformed
        /\ find_handler(handleLog[i].truth.interface_id) = "bound"}

ServePending(k) ==
    \E j \in DOMAIN tasks : tasks[j].kind = "serve" /\ <<tasks[j].session, tasks[j].seq>> = k

\* The status the claim names for what a run of the handler body met
C10_Status(b) ==
    IF b.method_id \notin DOMAIN BoundMethods THEN StatusNotFound
    ELSE IF ~b.decode_ok THEN StatusInvalidRequest
    ELSE IF b.impl = "failure" THEN StatusApplicationError
    ELSE IF BoundMethods[b.method_id] /\ ~b.encode_ok THEN StatusInternalError
    ELSE StatusOk

C10_Body(b) ==
    IF C10_Status(b) = StatusOk /\ BoundMethods[b.method_id] THEN EncodedReply ELSE << >>

C10_Threw(b) ==
    b.method_id \in DOMAIN BoundMethods /\ b.decode_ok /\ b.impl = "throws"

C3_CloseWakesReceiver ==
    /\ (rcv.pc = "returned" /\ rcv.closeEnded) =>
           rcv.result = Error("Cancelled", "Channel closed")
    /\ (rcv.pc = "in_poll" /\ rcv.closeEnded) => PollReady

(***************************************************************************)
(* Claims on Context::stop() (SpecStop).                                   *)
(***************************************************************************)

\* C14: once stop() has returned the session list is empty, and every session
\* that was added before that return, those added while stop() was running
\* included, has its channel closed and its I/O loop ended.
C14_StopLeavesNoSession ==
    stopper.pc = "returned" =>
        /\ session_list = {}
        /\ \A s \in StopSessions :
             sess[s].added \notin {"none", "returned"} =>
                 (sess[s].closed /\ ~sess[s].running_ /\ sess[s].pc = "done")

AllReturned ==
    /\ \A t \in RunThreads : runner[t] \in {"outside", "returned"}
    /\ listener.pc \in {"none", "returned"}
    /\ \A s \in StopSessions : sess[s].pc \in {"none", "done"}

\* C2: after stop(), every thread blocked in run(), in receive() or in
\* accept() returns: when stop() has returned and no thread can take a step
\* any more, none of them is still inside its loop.
C2_StopIsPrompt ==
    (stopper.pc = "returned" /\ ~ENABLED NextStop) => AllReturned

(***************************************************************************)
(* Claims on the executors (SpecExec).                                     *)
(***************************************************************************)
Accepted(k) == sched[k] \in {"pushed", "returned"}
Queued(k) == \E i \in DOMAIN tasks_ : tasks_[i] = k
Held(k) == \E w \in Workers : workers_[w].pc = "run" /\ workers_[w].task = k

\* C12: a task passed to ThreadPoolExecutor::schedule() before stop() is
\* executed exactly once, by a worker thread: never twice, it is not lost
\* while it waits (it is queued, held by a worker or done), it is not left
\* in the queue when every worker sleeps, and it is done when stop() has
\* returned.  With InlineExecutor the task has run once when schedule()
\* returns.
C12_ScheduledRunsOnce ==
    /\ \A k \in TaskIds :
         /\ Len(ranBy[k]) <= 1
         /\ \A i \in DOMAIN ranBy[k] : ranBy[k][i][1] \in Workers
         /\ Accepted(k) => (Len(ranBy[k]) = 1 \/ Queued(k) \/ Held(k))
         /\ (Accepted(k) /\ poolStop = "returned") => Len(ranBy[k]) = 1
         /\ inlineRan[k] = (IF inlineSched[k] = "returned" THEN 1 ELSE 0)
    /\ (WaitingWorkers = Workers /\ \A k \in TaskIds : sched[k] # "pushed") => tasks_ = << >>

C12_Witness ==
    /\ poolStop = "returned"
    /\ \A k \in TaskIds : Accepted(k) /\ Len(ranBy[k]) = 1 /\ inlineRan[k] = 1
    /\ \E k \in TaskIds : ranBy[k][1][1] = 1
    /\ \E k \in TaskIds : ranBy[k][1][1] = 2

\* C13 as stated: once stop() has been called no task still waiting in the
\* queue is started; the workers terminate and stop() returns; a task passed
\* to schedule() after stop() is never executed.
C13_StopStartsNoTask ==
    /\ \A k \in TaskIds : \A i \in DOMAIN ranBy[k] : ~ranBy[k][i][2]
    /\ \A k \in TaskIds : sched[k] = "dropped" => ranBy[k] = << >>
    /\ poolStop = "returned" => \A w \in Workers : workers_[w].pc = "exited"

\* C13 as amended: once stop() has been called the workers run the tasks
\* still waiting in the queue, then all of them terminate and stop() returns
\* (nothing is left to run, and stop() has returned when no thread can take
\* a step); a task passed to schedule() after stop() is never queued nor
\* executed, and its schedule() call returns.
C13_StopDrainsAndJoins ==
    /\ poolStop = "returned" =>
         /\ \A w \in Workers : workers_[w].pc = "exited"
         /\ tasks_ = << >>
         /\ \A k \in TaskIds : Len(ranBy[k]) = (IF Accepted(k) THEN 1 ELSE 0)
    /\ \A k \in TaskIds : sched[k] = "dropped" => (ranBy[k] = << >> /\ ~Queued(k) /\ ~Held(k))
    /\ \A k \in TaskIds : (pool_stopping_ /\ sched[k] = "idle") => ENABLED PoolSchedule(k)
    /\ (~ENABLED NextExec) => poolStop = "returned"

C13_Witness ==
    /\ poolStop = "returned"
    /\ \E k \in TaskIds : Len(ranBy[k]) = 1 /\ ranBy[k][1][2]
    /\ \E k \in TaskIds : sched[k] = "dropped"

(***************************************************************************)
(* Claims on HB1 messages (SpecHb1).                                       *)
(***************************************************************************)
\* The field values agree with the descriptor: known ids, the wire type of
\* the descriptor, and the value kind that wire type carries
MatchesDescriptor(descriptor, values) ==
    \A i \in DOMAIN values :
        LET d == find_field(descriptor, values[i].id)
        IN  /\ d # 0
            /\ descriptor[d].wire_type = values[i].wire_type
            /\ values[i].kind =
                 (CASE values[i].wire_type = ZigZagVarint -> "Signed"
                    [] values[i].wire_type = LengthDelimited ->
                         IF descriptor[d].preferred_kind = "String" THEN "String" ELSE "Bytes"
                    [] OTHER -> "Unsigned")
HasRequired(descriptor, values) == ~missing_required(descriptor, values)

\* C16: for field values that agree with the descriptor (and hold its
\* required fields) encode_message succeeds and decode_message with the same
\* descriptor returns the same field values in the same order.
C16_RoundTrip ==
    (/\ hbPc = "decoded"
     /\ hbDec.descriptor = hbMsg.descriptor
     /\ MatchesDescriptor(hbMsg.descriptor, hbMsg.values)
     /\ HasRequired(hbMsg.descriptor, hbMsg.values)) =>
        (hbDec.result.ok /\ hbDec.result.values = hbMsg.values)

\* C17: on the bytes encode_message wrote, decode_message with a descriptor
\* succeeds exactly when every non-optional field of that descriptor occurs
\* among the fields written; the result holds no field of an id the
\* descriptor lacks and every one of an id it has; a failure is TransportError.
C17_RequiredAndUnknown ==
    hbPc = "decoded" =>
        LET known == SelectSeq(hbMsg.values,
                               LAMBDA v : find_field(hbDec.descriptor, v.id) # 0)
        IN  /\ hbDec.result.ok <=> HasRequired(hbDec.descriptor, known)
            /\ hbDec.result.ok =>
                 [i \in DOMAIN hbDec.result.values |-> hbDec.result.values[i].id]
                     = [i \in DOMAIN known |-> known[i].id]
            /\ ~hbDec.result.ok => hbDec.result.error.code = "TransportError"

\* C30: decode_message returns no field value whose wire type differs from
\* the one the descriptor declares for its id; bytes whose field has a known
\* id and another wire type, or a wire-type byte outside 0..5, make it fail.
C30_DeclaredWireType ==
    (hbPc = "checked" /\ hbDec.result.ok) =>
        \A i \in DOMAIN hbDec.result.values :
            LET value == hbDec.result.values[i]
            IN  hbDec.descriptor[find_field(hbDec.descriptor, value.id)].wire_type
                    = value.wire_type

(***************************************************************************)
(* Claims on frame headers (SpecFrame).                                    *)
(***************************************************************************)
\* C18: decode_header on the bytes of encode_header succeeds and returns the
\* type, flags, length and stream id that were encoded; and after a change
\* of one bit among the first 20 bytes decode_header fails with
\* TransportError.
C18_HeaderRoundTrip ==
    /\ fhPc \in {"decoded", "damaged", "rejected"} =>
         (Len(fhBytes) = FrameHeaderSize /\ fhDecoded.ok /\ fhDecoded.header = fhHeader)
    /\ fhPc = "rejected" =>
         (~fhDamaged.ok /\ fhDamaged.error.code = "TransportError")

C18_Witness ==
    /\ fhPc = "rejected"
    /\ fhHeader = FrameHeader(3, FrameFlagEndStream, <<0, 123>>, <<4660, 22136, 39612, 57072>>)
    /\ fhDecoded.ok
    /\ fhFlip = 100
    /\ fhDamaged.error.message = "frame header crc mismatch"

(***************************************************************************)
(* Claims on the generated identifiers (SpecId).                           *)
(***************************************************************************)
\* 64-bit FNV-1a: offset basis 14695981039346656037, prime 1099511628211
Fnv1a64(text) ==
    hash_from(text, 1, <<37, 35, 34, 132, 228, 156, 242, 203>>, <<179, 1, 0, 0, 0, 1, 0, 0>>)

\* C19: the module_id, interface_id and method_id emitted are the 64-bit
\* FNV-1a hashes of "module", "module.Interface" and
\* "module.Interface.method".
C19_IdsAreFnv1a ==
    idPc = "emitted" =>
        /\ idMeta.module_id = Fnv1a64(idNames.module)
        /\ idMeta.interface_id = Fnv1a64(idNames.module \o Dot \o idNames.iface)
        /\ idMeta.method_id =
             Fnv1a64(idNames.module \o Dot \o idNames.iface \o Dot \o idNames.method)

(***************************************************************************)
(* Claims on parse_imports (SpecImport).                                   *)
(***************************************************************************)
\* C20: whatever the files import (themselves, each other, by any spelling
\* of the path), no file is parsed more than once, and the call has returned
\* when no step is left.
C20_ParsedAtMostOnce ==
    /\ \A f \in DiskFiles : parsedTimes[f] <= 1
    /\ (parseResult = "running") => ENABLED NextImport

\* C21: an import that is followed names the file found under the root
\* file's directory by the import path as written, also when the importing
\* file stands in a sub-directory (the stored key is compared up to "."
\* components, which name no other directory).
C21_ResolvedAgainstRoot ==
    [][ Len(callStack') > Len(callStack) /\ callStack # << >>
        => LET top == callStack[Len(callStack)]
               import == importsOf[opened_file(top.path)][top.next]
           IN  opened_file(callStack'[Len(callStack')].path)
                 = opened_file(import_key(RootPath, import)) ]_vars

(***************************************************************************)
(* Claims on the id checks of the semantic validator (SpecValid).          *)
(***************************************************************************)
\* the container checked last, and what the sink holds about it
LastOwner ==
    CASE validPc = "params" -> "struct"
      [] validPc = "result" -> "params"
      [] validPc = "done" -> "result"
      [] OTHER -> "none"
Reported(severity) ==
    SelectSeq(sink, LAMBDA d : d.owner = LastOwner /\ d.severity = severity)
BadId(ids) ==
    \E i \in 1..Len(ids) :
        \/ ids[i] = <<0, 0, 0, 0>>
        \/ ids[i][1] > 0 \/ ids[i][2] > 0 \/ ids[i][3] > 32767
        \/ \E j \in 1..Len(ids) : j # i /\ ids[j] = ids[i]
\* two ids of the container with no id of it between them, and not adjacent
Gaps(ids) ==
    {pair \in {<<ids[i], ids[j]>> : i, j \in 1..Len(ids)} :
        /\ Lt64(pair[1], pair[2])
        /\ Inc64(pair[1]) # pair[2]
        /\ ~\E k \in 1..Len(ids) : Lt64(pair[1], ids[k]) /\ Lt64(ids[k], pair[2])}

\* C22: the container checked last has an id Error in the sink exactly when
\* one of its ids is 0, above 2147483647 or repeated, whatever the sink held
\* before; every Error is an Invalid or Duplicate id Error; each gap between
\* neighbouring ids is reported as a Note naming both; and the validator goes
\* on to the next container.
C22_IdDiagnostics ==
    /\ validPc # "struct" =>
         /\ (Reported("Error") # << >>) <=> BadId(nodes)
         /\ \A n \in 1..Len(Reported("Error")) :
                Reported("Error")[n].kind \in {"Invalid", "Duplicate"}
         /\ \A pair \in Gaps(nodes) :
                \E n \in 1..Len(Reported("Note")) :
                    Reported("Note")[n].kind = "Gap" /\ Reported("Note")[n].ids = pair
    /\ validPc # "done" => ENABLED NextValid

\* an Error in the struct and in the parameters, then a result tuple with a
\* repeated id above the maximum and a gap
C22_Witness ==
    /\ validPc = "done"
    /\ \E n \in 1..Len(sink) : sink[n].owner = "struct" /\ sink[n].severity = "Error"
    /\ \E n \in 1..Len(sink) : sink[n].owner = "params" /\ sink[n].kind = "Duplicate"
    /\ \E n \in 1..Len(Reported("Error")) : Reported("Error")[n].kind = "Invalid"
    /\ Reported("Note") # << >>

(***************************************************************************)
(* Claims on write_file_if_changed and emit_module (SpecEmit).             *)
(***************************************************************************)
\* C23: a call of write_file_if_changed on a path whose file exists with
\* exactly the generated bytes does not open it for writing and leaves it as
\* it is; a call that finds other bytes and returns without error leaves
\* exactly the generated bytes; and a run on the input of the run before,
\* which succeeded, writes no file at all.
C23_WriteIfChanged ==
    [][ /\ \A path \in OutputPaths :
             emitPc = path =>
               LET content == generated(path, emitInput)
                   returned == emitPc' # "idle" \/ emitResult' = "ok"
               IN  /\ disk[path] = File(content)
                       => disk'[path] = disk[path] /\ <<emitRuns, path>> \notin wrote'
                   /\ disk[path].exists /\ disk[path].bytes # content /\ returned
                       => disk'[path] = File(content)
        /\ prevInput' # 0 /\ prevInput' = emitInput'
             => ~\E path \in OutputPaths : <<emitRuns', path>> \in wrote' ]_vars

\* a first run that replaced a differing file, then a finished second run on
\* the same module
C23_Witness ==
    /\ emitRuns = 2
    /\ emitPc = "idle"
    /\ emitResult = "ok"
    /\ prevInput = emitInput
    /\ \E path \in OutputPaths : <<1, path>> \in wrote

(***************************************************************************)
(* Claims on transport errors (SpecFault).                                 *)
(***************************************************************************)
\* handle_session_error has removed the session: it was added, is no longer
\* in the list, and nobody called Session::stop on it
Errored(s) == adder[s] # "none" /\ s \notin sessions_ /\ running_[s]
PushedOf(s) == SelectSeq(pushLog, LAMBDA k : k[1] = s)
HandledOf(s) == SelectSeq(handleLog, LAMBDA h : h.session = s)

\* C24: once a transport error has removed a session, no frame of that
\* session is enqueued or dispatched any more.
C24_ErrorTearsDown ==
    [][ \A s \in SessionIds :
          Errored(s) =>
            /\ PushedOf(s)' = PushedOf(s)
            /\ HandledOf(s)' = HandledOf(s) ]_vars

\* C27: once a client session is torn down for good (removed, its I/O loop
\* ended, none of its frames queued or being handled) every request that was
\* sent on it has had its continuation invoked, or the invocation is
\* scheduled: no caller stays without a result.
C27_TornDownCompletes ==
    \A c \in DOMAIN calls :
        (/\ calls[c].sent
         /\ io[calls[c].session].pc = "done"
         /\ ~Alive(calls[c].session)
         /\ ~\E i \in DOMAIN tasks : tasks[i].kind = "cont" /\ tasks[i].cont = c)
            => calls[c].results # << >>

(***************************************************************************)
(* Claims on concurrent sends on one session (SpecSend).                   *)
(***************************************************************************)
\* C25: on the channel the header of a frame with a payload is directly
\* followed by that payload: nothing another thread wrote stands between them.
C25_FramesContiguous ==
    \A i \in 1..Len(wire) :
        (wire[i].part = "header" /\ sender[wire[i].by].length > 0 /\ i < Len(wire))
            => wire[i + 1] = Written(wire[i].by, "payload", sender[wire[i].by].length)

(***************************************************************************)
(* Claims on Context::join() against Context::stop() (SpecJoin).           *)
(***************************************************************************)
\* a step of a thread that is running: all of SpecJoin but the calls of
\* listen() and start()
ThreadStep ==
    \/ AcceptLoop \/ AcceptCall \/ AcceptFailed
    \/ \E t \in RunThreads : PopCheck(t) \/ PopWait(t) \/ RunEmpty(t)
    \/ StopCall \/ StopNotify \/ StopListeners \/ StopSnapshot \/ StopSession
    \/ JoinReactor \/ JoinLock \/ JoinListeners

\* C26: with a thread inside join(), a stop() that has been called and has
\* not returned is never stuck: some thread can take a step, whether or not
\* start() made a reactor thread.
C26_StopAndJoinReturn ==
    (stopper.pc \notin {"idle", "returned"} /\ joiner # "idle") => ENABLED ThreadStep

(***************************************************************************)
(* Claims on two client-side sessions of one Context (SpecClients).        *)
(***************************************************************************)
\* C28: whenever the response handler of a call is taken for a Data frame,
\* the frame being handled was received on the session the call was sent on.
C28_OwnSessionCompletes ==
    [][ \A c \in DOMAIN calls :
          (c \in DOMAIN taken /\ taken'[c] > taken[c])
            => \E t \in RunThreads :
                 /\ rt[t].pc = "popped" /\ rt'[t].pc = "idle"
                 /\ rt[t].item.session = calls[c].session ]_vars

(***************************************************************************)
(* Claims on the Ping exchange of two Contexts (SpecPing).                 *)
(***************************************************************************)
PingsAbout ==
    {c \in Sides : \E i \in 1..Len(pingInbox[c]) : pingInbox[c][i].type = "Ping"}
    \cup {c \in Sides : \E i \in 1..Len(pingQueue[c]) : pingQueue[c][i].type = "Ping"}

\* C29: after the one Ping from outside the exchange comes to an end: from
\* some moment on no Ping frame is on the channel or in a queue.
C29_PingsDieOut == pinged ~> (PingsAbout = {})

====
